---- MODULE Spec2Model ----
(***************************************************************************)
(* opencode-brain: the cross-process write coordination of the plugin.     *)
(*                                                                         *)
(*   - withMindLock (src/src/utils/lock.ts): an advisory file lock around  *)
(*     a unit of work, taken with proper-lockfile and LOCK_OPTIONS.        *)
(*   - isDuplicateAcrossProcesses (src/src/utils/dedup.ts): the dedup log  *)
(*     of a directory, read, tested and rewritten inside one lock section. *)
(*   - Mind.open / remember / saveSessionSummary / stats                   *)
(*     (src/src/core/mind.ts): the store file behind the memory-file lock. *)
(*                                                                         *)
(* Processes are the OS processes (or overlapping async calls of one       *)
(* process) that run the plugin on one project directory.  Every await of  *)
(* the source is a step boundary.  Time is the wall clock in milliseconds, *)
(* advancing in steps of TickMs.                                           *)
(***************************************************************************)
EXTENDS Integers, Sequences, FiniteSets, TLC

(* ------------------------------ bounds -------------------------------- *)
NumProcs == 2
MaxCalls == 2
MaxTicks == 3
MaxFaults == 1
MindCalls == 4

\* Calls of writeSessionInfo and readSessionInfo in a run.
SessionCalls == 4

\* Tool calls the cached hook stores in a run, and the rests of the tools.
MaxObserved == 101
MaxPauses == 1

\* Calls one Mind makes in a run that counts its observations.
CountCalls == 7

\* Calls of the query tools in a run.
QueryCalls == 2

\* Tool calls given to the cached hook in a run of overlapping handlers, and
\* the ticks of that run.
OverlapCalls == 3
OverlapTicks == 3

\* Session events given to a process in a run of overlapping handlers.
IdleCalls == 2

\* Calls in a run that uses every lock, and the ticks of that run.
LockCalls == 2
LockTicks == 2

\* Handlers of the plugin that run in a run, the ticks of that run, and
\* the files of a large change.
PluginCalls == 2
PluginTicks == 2
ManyFiles == 30
MaxDamage == 1

Procs == 1..NumProcs

(* -------------------------- program constants ------------------------- *)
DEDUP_WINDOW_MS == 60000

MAX_FILE_SIZE_MB == 100

\* pruneBackups(memoryPath, 3)
BackupKeepCount == 3

\* The timeout of the concurrent-writes test.
TestTimeoutMs == 30000

LOCK_OPTIONS ==
  [stale |-> 30000,
   retries |-> [retries |-> 1000, minTimeout |-> 5, maxTimeout |-> 50]]

\* The longest a contended acquisition waits before it gives up: the retry
\* count times the longest backoff.
LockWaitMs == LOCK_OPTIONS.retries.retries * LOCK_OPTIONS.retries.maxTimeout

\* The granularity of the clock: half a dedup window, which is also the
\* stale interval of a lock.
TickMs == DEDUP_WINDOW_MS \div 2

Min(a, b) == IF a < b THEN a ELSE b

(* ------------------------------ strings ------------------------------- *)
RECURSIVE Repeat(_, _)
Repeat(s, n) ==
  IF n = 0 THEN ""
  ELSE IF n % 2 = 0 THEN LET half == Repeat(s, n \div 2) IN half \o half
  ELSE s \o Repeat(s, n - 1)

\* String.prototype.slice(0, n)
Slice0(s, n) == SubSeq(s, 1, Min(n, Len(s)))

\* JSON.stringify of a tool input descriptor {file_path: <string>} whose
\* path needs no escaping.
JSONStringifyInput(toolInput) == "{\"file_path\":\"" \o toolInput.file_path \o "\"}"

\* createHash("md5").update(s).digest("hex"), taken as collision free: the
\* digest stands for the text that was digested.
Md5Hex(s) == s

(* --------------------------- the file system -------------------------- *)
Directory == "/proj"

getDedupPath(directory) == directory \o "/.claude/mind-dedup.log"

DedupLockPath == getDedupPath(Directory) \o ".lock"

\* resolve(directory, DEFAULT_CONFIG.memoryPath)
MemoryPath == Directory \o "/.claude/mind.mv2"

\* Mutant: one session file for all sources.
getSessionPath_Shared(directory, source) == directory \o "/.claude/mind-session.json"

\* dedup.ts 103-105
getSessionPath(directory, source) ==
  directory \o "/.claude/mind-session-" \o source \o ".json"

SessionSources == {"opencode", "claude-code", "unknown"}

SessionPaths == {getSessionPath(Directory, s) : s \in SessionSources}

\* dedup.ts 129
SessionLockPath(source) == getSessionPath(Directory, source) \o ".lock"

Paths == {DedupLockPath, MemoryPath} \cup {SessionLockPath(s) : s \in SessionSources}

\* msg.includes(pattern)
Includes(msg, pattern) ==
  \E i \in 1..(Len(msg) - Len(pattern) + 1) :
    SubSeq(msg, i, i + Len(pattern) - 1) = pattern

CORRUPTION_PATTERNS ==
  {"Deserialization", "UnexpectedVariant", "Invalid", "corrupt",
   "validation failed", "unable to recover", "table of contents",
   "version mismatch"}

(* ---------------------- compression: text helpers --------------------- *)
TARGET_COMPRESSED_SIZE == 2000

COMPRESSION_THRESHOLD == 3000

\* the characters i..j of s, 1-based, as far as s has them
Sub(s, i, j) == SubSeq(s, IF i < 1 THEN 1 ELSE i, Min(j, Len(s)))

\* s[i], 1-based; "" beyond the ends
CharAt(s, i) == Sub(s, i, i)

StartsWith(s, prefix) == Len(s) >= Len(prefix) /\ SubSeq(s, 1, Len(prefix)) = prefix

EndsWith(s, suffix) ==
  Len(s) >= Len(suffix) /\ SubSeq(s, Len(s) - Len(suffix) + 1, Len(s)) = suffix

\* Array.prototype.slice(0, n) and slice(-n)
Take(seq, n) == SubSeq(seq, 1, Min(n, Len(seq)))

TakeLast(seq, n) == SubSeq(seq, Len(seq) - Min(n, Len(seq)) + 1, Len(seq))

\* the 1-based position of the first (last) occurrence of the character c
\* in s[lo..hi], 0 when there is none; the search halves the range.
RECURSIVE IndexIn(_, _, _, _)
IndexIn(s, c, lo, hi) ==
  IF lo > hi THEN 0
  ELSE IF lo = hi THEN (IF CharAt(s, lo) = c THEN lo ELSE 0)
  ELSE LET mid == (lo + hi) \div 2
           left == IndexIn(s, c, lo, mid)
       IN  IF left # 0 THEN left ELSE IndexIn(s, c, mid + 1, hi)

RECURSIVE LastIndexIn(_, _, _, _)
LastIndexIn(s, c, lo, hi) ==
  IF lo > hi THEN 0
  ELSE IF lo = hi THEN (IF CharAt(s, lo) = c THEN lo ELSE 0)
  ELSE LET mid == (lo + hi) \div 2
           right == LastIndexIn(s, c, mid + 1, hi)
       IN  IF right # 0 THEN right ELSE LastIndexIn(s, c, lo, mid)

IndexOf(s, c) == IndexIn(s, c, 1, Len(s))

LastIndexOf(s, c) == LastIndexIn(s, c, 1, Len(s))

\* String.prototype.split(sep) for a separator of one character: the
\* pieces of the two halves, the last piece of the left half and the first
\* of the right half being one piece.
RECURSIVE Split(_, _)
Split(s, sep) ==
  IF Len(s) = 0 THEN <<"">>
  ELSE IF Len(s) = 1 THEN (IF s = sep THEN <<"", "">> ELSE <<s>>)
  ELSE LET h == Len(s) \div 2
           a == Split(SubSeq(s, 1, h), sep)
           b == Split(SubSeq(s, h + 1, Len(s)), sep)
       IN  SubSeq(a, 1, Len(a) - 1) \o <<a[Len(a)] \o Head(b)>> \o Tail(b)

\* Array.prototype.join(sep)
RECURSIVE Join(_, _)
Join(seq, sep) ==
  IF Len(seq) = 0 THEN ""
  ELSE IF Len(seq) = 1 THEN seq[1]
  ELSE LET h == Len(seq) \div 2
       IN  Join(SubSeq(seq, 1, h), sep) \o sep \o Join(SubSeq(seq, h + 1, Len(seq)), sep)

\* the elements of seq whose flag is set
RECURSIVE Select(_, _)
Select(seq, flags) ==
  IF Len(seq) = 0 THEN <<>>
  ELSE IF Len(seq) = 1 THEN (IF flags[1] THEN seq ELSE <<>>)
  ELSE LET h == Len(seq) \div 2
       IN  Select(SubSeq(seq, 1, h), SubSeq(flags, 1, h))
             \o Select(SubSeq(seq, h + 1, Len(seq)), SubSeq(flags, h + 1, Len(seq)))

\* Array.prototype.filter
Filter(seq, Test(_)) == Select(seq, [i \in 1..Len(seq) |-> Test(seq[i])])

\* filter(Boolean) on strings: the empty string goes
Truthy(s) == s # ""

UpperCase == "ABCDEFGHIJKLMNOPQRSTUVWXYZ"

LowerCase == "abcdefghijklmnopqrstuvwxyz"

Digits == "0123456789"

\* the characters of a string, as a set
Chars(s) == {SubSeq(s, i, i) : i \in 1..Len(s)}

UpperCaseChars == Chars(UpperCase)

LowerOf(c) ==
  IF c \in UpperCaseChars THEN CharAt(LowerCase, IndexOf(UpperCase, c)) ELSE c

\* String.prototype.toLowerCase on ASCII text
RECURSIVE ToLowerCase(_)
ToLowerCase(s) ==
  IF Len(s) = 0 THEN ""
  ELSE IF Len(s) = 1 THEN LowerOf(s)
  ELSE LET h == Len(s) \div 2
       IN  ToLowerCase(SubSeq(s, 1, h)) \o ToLowerCase(SubSeq(s, h + 1, Len(s)))

\* \w and \s of the regular expressions, on ASCII text without tabs
WordChars == Chars(UpperCase \o LowerCase \o Digits \o "_")

SpaceChars == {" "}

IsWordChar(c) == c \in WordChars

IsSpace(c) == c \in SpaceChars

\* the first (last) position in lo..hi of s whose character is not in the
\* class, hi + 1 (lo - 1) when every character is; the search halves the
\* range.
RECURSIVE FirstNot(_, _, _, _)
FirstNot(s, class, lo, hi) ==
  IF lo > hi THEN hi + 1
  ELSE IF lo = hi THEN (IF CharAt(s, lo) \in class THEN hi + 1 ELSE lo)
  ELSE LET mid == (lo + hi) \div 2
           left == FirstNot(s, class, lo, mid)
       IN  IF left <= mid THEN left ELSE FirstNot(s, class, mid + 1, hi)

RECURSIVE LastNot(_, _, _, _)
LastNot(s, class, lo, hi) ==
  IF lo > hi THEN lo - 1
  ELSE IF lo = hi THEN (IF CharAt(s, lo) \in class THEN lo - 1 ELSE lo)
  ELSE LET mid == (lo + hi) \div 2
           right == LastNot(s, class, mid + 1, hi)
       IN  IF right > mid THEN right ELSE LastNot(s, class, lo, mid)

\* the position after the run of word characters (of blanks) that begins
\* at position i of s
SkipWord(s, i) == FirstNot(s, WordChars, i, Len(s))

SkipSpace(s, i) == FirstNot(s, SpaceChars, i, Len(s))

\* String.prototype.trim
Trim(s) == SubSeq(s, SkipSpace(s, 1), LastNot(s, SpaceChars, 1, Len(s)))

(* ------------------- compression: what the patterns find --------------- *)
\* The regular expressions of compression.ts are matched line by line (flag
\* m). The operators below give, for one line, the text the expression
\* matches, "" when it does not match. They are exact on ASCII lines whose
\* blanks are spaces and whose parentheses close on the line they open.

Map(seq, F(_)) == [i \in 1..Len(seq) |-> F(seq[i])]

\* code.match(pattern) || []
Matches(lines, Match(_)) == Filter(Map(lines, Match), Truthy)

\* the word among words that stands at position i of s and is followed by
\* a space, "" when there is none
WordAt(s, i, words) ==
  LET found == {w \in words : Sub(s, i, i + Len(w)) = w \o " "}
  IN  IF found = {} THEN "" ELSE CHOOSE w \in found : TRUE

\* the position after an optional word and the spaces behind it
SkipOptional(s, i, words) ==
  LET w == WordAt(s, i, words)
  IN  IF w = "" THEN i ELSE SkipSpace(s, i + Len(w))

\* the position after keyword, one or more spaces and a word, all of which
\* must be there; 0 when they are not
AfterDeclared(s, i, keywords) ==
  LET k == WordAt(s, i, keywords)
      n == SkipSpace(s, i + Len(k))
      e == SkipWord(s, n)
  IN  IF k # "" /\ e > n THEN e ELSE 0

\* /^import\s+.+$/
ImportMatch(l) ==
  IF StartsWith(l, "import ") /\ Len(l) >= 8 THEN l ELSE ""

\* /^const\s+\w+\s*=\s*require\(.+\)$/
RequireMatch(l) ==
  LET e == AfterDeclared(l, 1, {"const"})
      q == SkipSpace(l, e)
      r == SkipSpace(l, q + 1)
  IN  IF /\ e # 0 /\ CharAt(l, q) = "="
         /\ Sub(l, r, r + 7) = "require("
         /\ EndsWith(l, ")") /\ Len(l) >= r + 9
      THEN l ELSE ""

\* /^use\s+.+;$/
UseMatch(l) ==
  IF StartsWith(l, "use ") /\ EndsWith(l, ";") /\ Len(l) >= 6 THEN l ELSE ""

extractImports(lines) ==
  Matches(lines, ImportMatch) \o Matches(lines, RequireMatch) \o Matches(lines, UseMatch)

\* /^export\s+(default\s+)?(function|class|const|let|var|interface|type)\s+\w+/
ExportMatch(l) ==
  LET d == SkipOptional(l, 1, {"export"})
      k == SkipOptional(l, d, {"default"})
      e == AfterDeclared(l, k, {"function", "class", "const", "let", "var",
                                "interface", "type"})
  IN  IF d > 1 /\ e # 0 THEN Sub(l, 1, e - 1) ELSE ""

\* /^pub\s+(fn|struct|enum|trait)\s+\w+/
PubMatch(l) ==
  LET d == SkipOptional(l, 1, {"pub"})
      e == AfterDeclared(l, d, {"fn", "struct", "enum", "trait"})
  IN  IF d > 1 /\ e # 0 THEN Sub(l, 1, e - 1) ELSE ""

\* /^module\.exports\s*=/
ModuleExportsMatch(l) ==
  LET q == SkipSpace(l, 15)
  IN  IF StartsWith(l, "module.exports") /\ CharAt(l, q) = "="
      THEN Sub(l, 1, q) ELSE ""

extractExports(lines) ==
  Matches(lines, ExportMatch) \o Matches(lines, PubMatch)
    \o Matches(lines, ModuleExportsMatch)

\* the position of the parenthesis that closes the one at position i of s,
\* which holds no other closing parenthesis: \([^)]*\); 0 when s has no
\* "(" at i or no ")" behind it
ClosingParen(s, i) ==
  IF CharAt(s, i) = "(" THEN IndexIn(s, ")", i + 1, Len(s)) ELSE 0

\* /^(export\s+)?(async\s+)?function\s+\w+\s*\([^)]*\)/
FunctionMatch(l) ==
  LET d == SkipOptional(l, 1, {"export"})
      a == SkipOptional(l, d, {"async"})
      e == AfterDeclared(l, a, {"function"})
      c == ClosingParen(l, SkipSpace(l, e))
  IN  IF e # 0 /\ c # 0 THEN Sub(l, 1, c) ELSE ""

\* /^\s*(public|private|protected)?\s*(async\s+)?\w+\s*\([^)]*\)\s*[:{]/,
\* trimmed
MethodMatch(l) ==
  LET s == SkipSpace(l, 1)
      m == SkipOptional(l, s, {"public", "private", "protected"})
      a == SkipOptional(l, m, {"async"})
      Tail1(i) ==
        LET e == SkipWord(l, i)
            c == ClosingParen(l, SkipSpace(l, e))
            b == SkipSpace(l, c + 1)
        IN  IF e > i /\ c # 0 /\ CharAt(l, b) \in {":", "{"} THEN b ELSE 0
      ends == {Tail1(i) : i \in {s, m, a}} \ {0}
  IN  IF ends = {} THEN "" ELSE Trim(Sub(l, 1, CHOOSE b \in ends : TRUE))

\* /^(pub\s+)?fn\s+\w+\s*[<(]/
FnMatch(l) ==
  LET d == SkipOptional(l, 1, {"pub"})
      e == AfterDeclared(l, d, {"fn"})
      b == SkipSpace(l, e)
  IN  IF e # 0 /\ CharAt(l, b) \in {"<", "("} THEN Sub(l, 1, b) ELSE ""

\* /^def\s+\w+\s*\(/
DefMatch(l) ==
  LET e == AfterDeclared(l, 1, {"def"})
      b == SkipSpace(l, e)
  IN  IF e # 0 /\ CharAt(l, b) = "(" THEN Sub(l, 1, b) ELSE ""

\* [...new Set(seq)]: each value once, in the order of first appearance
Unique(seq) ==
  LET IsFirst(i) == \A j \in 1..(i - 1) : seq[j] # seq[i]
      At(i) == seq[i]
  IN  Map(Filter([i \in 1..Len(seq) |-> i], IsFirst), At)

extractFunctionSignatures(lines) ==
  Unique(Matches(lines, FunctionMatch) \o Matches(lines, MethodMatch)
           \o Matches(lines, FnMatch) \o Matches(lines, DefMatch))

\* /^(export\s+)?(abstract\s+)?class\s+(\w+)/, the name captured
ClassMatch(l) ==
  LET d == SkipOptional(l, 1, {"export"})
      a == SkipOptional(l, d, {"abstract"})
      e == AfterDeclared(l, a, {"class"})
  IN  IF e # 0 THEN Sub(l, SkipSpace(l, a + 5), e - 1) ELSE ""

extractClassNames(lines) == Matches(lines, ClassMatch)

NoteMarkers == {"TODO", "FIXME", "HACK", "XXX", "BUG", "NOTE"}

\* /^.*\b(TODO|FIXME|HACK|XXX|BUG|NOTE)\b.*$/, trimmed
NoteMatch(l) ==
  IF \E w \in NoteMarkers : \E i \in 1..(Len(l) - Len(w) + 1) :
       /\ Sub(l, i, i + Len(w) - 1) = w
       /\ i = 1 \/ ~IsWordChar(CharAt(l, i - 1))
       /\ i + Len(w) > Len(l) \/ ~IsWordChar(CharAt(l, i + Len(w)))
  THEN Trim(l) ELSE ""

extractErrorPatterns(lines) == Matches(lines, NoteMatch)

(* ---------------------- compression: the strategies ------------------- *)
\* toolInput is undefined
Undefined == [undefined |-> "undefined"]

\* toolInput?.key as string; "" stands for a value that is not there, which
\* the source tests in the same way (|| and if)
Get(toolInput, key) == IF key \in DOMAIN toolInput THEN toolInput[key] ELSE ""

Or(a, b) == IF a # "" THEN a ELSE b

\* /w1|w2|.../i.test(l)
TestAnyIgnoreCase(l, words) ==
  LET lower == ToLowerCase(l) IN \E w \in words : Includes(lower, w)

\* compression.ts 75-124
compressFileRead(toolInput, output) ==
  LET lines == Split(output, "\n")
      filePath == Or(Get(toolInput, "file_path"), Get(toolInput, "filePath"))
      imports == extractImports(lines)
      exports == extractExports(lines)
      functions == extractFunctionSignatures(lines)
      classes == extractClassNames(lines)
      errors == extractErrorPatterns(lines)
      parts ==
        (IF filePath # "" THEN <<"File: " \o filePath>> ELSE <<>>)
        \o (IF Len(imports) > 0
            THEN <<"\nImports:\n" \o Join(Take(imports, 10), "\n")>> ELSE <<>>)
        \o (IF Len(exports) > 0
            THEN <<"\nExports:\n" \o Join(Take(exports, 10), "\n")>> ELSE <<>>)
        \o (IF Len(functions) > 0
            THEN <<"\nFunctions:\n" \o Join(Take(functions, 15), "\n")>> ELSE <<>>)
        \o (IF Len(classes) > 0
            THEN <<"\nClasses: " \o Join(classes, ", ")>> ELSE <<>>)
        \o (IF Len(errors) > 0
            THEN <<"\nNotes:\n" \o Join(Take(errors, 5), "\n")>> ELSE <<>>)
        \o (IF Len(lines) > 15
            THEN <<"\nFirst 10 lines:\n" \o Join(Take(lines, 10), "\n"),
                   "\nLast 5 lines:\n" \o Join(TakeLast(lines, 5), "\n")>>
            ELSE <<>>)
  IN  Join(parts, "\n")

ErrorWords == {"error", "failed", "exception", "warning"}

SuccessWords == {"success", "passed", "completed", "done"}

IsErrorLine(l) == TestAnyIgnoreCase(l, ErrorWords)

IsSuccessLine(l) == TestAnyIgnoreCase(l, SuccessWords)

\* compression.ts 126-165
compressBashOutput(toolInput, output) ==
  LET lines == Split(output, "\n")
      command == Get(toolInput, "command")
      errorLines == Filter(lines, IsErrorLine)
      successLines == Filter(lines, IsSuccessLine)
      parts ==
        (IF command # ""
         THEN <<"Command: " \o Slice0(Split(command, "\n")[1], 100)>> ELSE <<>>)
        \o (IF Len(errorLines) > 0
            THEN <<"\nErrors/Warnings:\n" \o Join(Take(errorLines, 10), "\n")>>
            ELSE <<>>)
        \o (IF Len(successLines) > 0
            THEN <<"\nSuccess:\n" \o Join(Take(successLines, 5), "\n")>> ELSE <<>>)
        \o (IF Len(lines) > 20
            THEN <<"\nOutput (" \o ToString(Len(lines)) \o " lines):",
                   Join(Take(lines, 10), "\n"), "...",
                   Join(TakeLast(lines, 5), "\n")>>
            ELSE <<"\nOutput:\n" \o output>>)
  IN  Join(parts, "\n")

\* l.split(":")[0]
BeforeColon(l) ==
  LET i == IndexOf(l, ":") IN IF i = 0 THEN l ELSE Sub(l, 1, i - 1)

\* compression.ts 167-191
compressGrepOutput(toolInput, output) ==
  LET lines == Filter(Split(output, "\n"), Truthy)
      pattern == Get(toolInput, "pattern")
      files == {BeforeColon(lines[i]) : i \in 1..Len(lines)} \ {""}
      parts ==
        (IF pattern # "" THEN <<"Pattern: " \o pattern>> ELSE <<>>)
        \o <<"Found " \o ToString(Len(lines)) \o " matches in "
               \o ToString(Cardinality(files)) \o " files",
             "\nTop matches:\n" \o Join(Take(lines, 10), "\n")>>
        \o (IF Len(lines) > 10
            THEN <<"\n... and " \o ToString(Len(lines) - 10) \o " more matches">>
            ELSE <<>>)
  IN  Join(parts, "\n")

\* line.split("/").slice(0, -1).join("/") || "."
DirName(line) ==
  LET k == LastIndexOf(line, "/") IN Or(Sub(line, 1, k - 1), ".")

\* line.split("/").pop() || line
BaseName(line) ==
  LET k == LastIndexOf(line, "/") IN Or(Sub(line, k + 1, Len(line)), line)

Indent(f) == "  " \o f

\* compression.ts 193-229; the directories keep the order in which they
\* first appear (none is named by a number), the sort by file count is
\* stable
compressGlobOutput(toolInput, output) ==
  LET lines == Filter(Split(output, "\n"), Truthy)
      pattern == Get(toolInput, "pattern")
      dirOf == Map(lines, DirName)
      dirs == Unique(dirOf)
      files == [i \in 1..Len(dirs) |->
                  Map(Select(lines, [k \in 1..Len(lines) |-> dirOf[k] = dirs[i]]),
                      BaseName)]
      rank == [i \in 1..Len(dirs) |->
                 Cardinality({j \in 1..Len(dirs) :
                    \/ Len(files[j]) > Len(files[i])
                    \/ Len(files[j]) = Len(files[i]) /\ j < i})]
      sortedDirs == Take([r \in 1..Len(dirs) |->
                            CHOOSE i \in 1..Len(dirs) : rank[i] = r - 1], 5)
      \* the two or three parts pushed for a directory, joined as the
      \* final join joins them
      entry == [n \in 1..Len(sortedDirs) |->
                  LET i == sortedDirs[n] IN
                    Join(<<"\n" \o dirs[i] \o "/ (" \o ToString(Len(files[i])) \o " files)",
                           Join(Map(Take(files[i], 5), Indent), "\n")>>
                         \o (IF Len(files[i]) > 5
                             THEN <<"  ... and " \o ToString(Len(files[i]) - 5) \o " more">>
                             ELSE <<>>), "\n")]
      parts ==
        (IF pattern # "" THEN <<"Pattern: " \o pattern>> ELSE <<>>)
        \o <<"Found " \o ToString(Len(lines)) \o " files">>
        \o entry
  IN  Join(parts, "\n")

\* filePath?.split("/").pop()
BaseNameOfPath(filePath) ==
  Sub(filePath, LastIndexOf(filePath, "/") + 1, Len(filePath))

\* compression.ts 231-239
compressEditOutput(toolInput, output) ==
  LET filePath == Or(Get(toolInput, "file_path"), Get(toolInput, "filePath"))
      fileName == Or(BaseNameOfPath(filePath), "file")
  IN  "File: " \o fileName \o "\nPath: " \o Or(filePath, "unknown")
        \o "\nChanges applied.\n\n" \o Slice0(output, 500)

\* compression.ts 241-253
compressGeneric(output) ==
  LET lines == Split(output, "\n")
  IN  IF Len(lines) <= 30 THEN output
      ELSE Join(Take(lines, 15)
                  \o <<"\n... (" \o ToString(Len(lines) - 25) \o " lines omitted) ...\n">>
                  \o TakeLast(lines, 10), "\n")

\* Mutant: nothing is cut.
truncateToTarget_Never(text) == text

\* compression.ts 324-327
truncateToTarget(text) ==
  IF Len(text) <= TARGET_COMPRESSED_SIZE THEN text
  ELSE Slice0(text, TARGET_COMPRESSED_SIZE) \o "\n... (truncated)"

\* Mutant: the autoCompress setting is not looked at.
compressToolOutput_IgnoreConfig(toolName, toolInput, output, autoCompress) ==
  IF Len(output) < COMPRESSION_THRESHOLD
  THEN [compressed |-> output, wasCompressed |-> FALSE, originalSize |-> Len(output)]
  ELSE [compressed |-> truncateToTarget(compressGeneric(output)), wasCompressed |-> TRUE,
        originalSize |-> Len(output)]

\* compression.ts 14-57; autoCompress is TRUE when the caller leaves it out
compressToolOutput(toolName, toolInput, output, autoCompress) ==
  LET originalSize == Len(output)
      tool == ToLowerCase(toolName)
      compressed ==
        CASE tool = "read" -> compressFileRead(toolInput, output)
          [] tool = "bash" -> compressBashOutput(toolInput, output)
          [] tool = "grep" -> compressGrepOutput(toolInput, output)
          [] tool = "glob" -> compressGlobOutput(toolInput, output)
          [] tool \in {"edit", "write", "update"} -> compressEditOutput(toolInput, output)
          [] OTHER -> compressGeneric(output)
  IN  IF ~autoCompress \/ originalSize < COMPRESSION_THRESHOLD
      THEN [compressed |-> output, wasCompressed |-> FALSE, originalSize |-> originalSize]
      ELSE [compressed |-> truncateToTarget(compressed), wasCompressed |-> TRUE,
            originalSize |-> originalSize]

(* ------------------------- inputs of the checks ----------------------- *)
Sources == {"opencode", "claude-code"}

ToolNames == {"Read", "Edit"}

\* A short path, and two long paths that differ only in their last
\* characters.
LongPath(c) == "/" \o Repeat("d", 199) \o "/file" \o c \o ".ts"

ToolInputs ==
  {[file_path |-> "/test/file1.ts"],
   [file_path |-> LongPath("1")], [file_path |-> LongPath("2")]}

\* The checks that are made: (source, tool, input) triples that differ from
\* the first one in at most one place.
BaseArgs == <<"opencode", "Read", [file_path |-> "/test/file1.ts"]>>

CheckArgs ==
  {a \in Sources \X ToolNames \X ToolInputs :
     Cardinality({i \in 1..3 : a[i] # BaseArgs[i]}) <= 1}

VARIABLES
  now,        \* Date.now()
  horizon,    \* the time at which the run is over
  damage,     \* times the memory file was damaged from outside so far
  lock,       \* per path: the lock proper-lockfile keeps for <path>.lock
  alive,      \* per process: it has not crashed
  pc,         \* per process: its position in the call it is running
  call,       \* per process: the call it is running, with its arguments
  waitStart,  \* per process: when it began waiting for the lock
  local,      \* per process: the locals of the unit of work
  fnOutcome,  \* per process: how the unit of work ended
  result,     \* per process: what the caller of withMindLock received
  releases,   \* per process: release() calls made by the current call
  rejected,   \* calls that rejected to their caller so far
  budget,     \* calls that may still be started
  faults,     \* crashes and failed file operations so far
  dedupFile,  \* the file <directory>/.claude/mind-dedup.log, as lines
  checks,     \* the dedup checks decided so far, in the order of decision
  store,      \* the memory file <directory>/.claude/mind.mv2
  backups,    \* the timestamps of the files mind.mv2.backup-<timestamp>
  mind,       \* per process: the Mind instance it holds
  env,        \* per process: process.env, the variables that are set
  sessionFiles,        \* per path: the file mind-session-<source>.json
  recentObservations,  \* per process: the cache of observed keys
  mindInstance,        \* the Mind singleton of mind.ts, and the Minds opened so far
  hook,       \* per process: the plugin handler that is running
  log         \* what the plugin's entry points did so far, in order

vars ==
  <<now, horizon, damage, lock, alive, pc, call, waitStart, local, fnOutcome, result,
    releases, rejected, budget, faults, dedupFile, checks, store, backups, mind,
    env, sessionFiles, recentObservations, mindInstance, hook, log>>

dedupVars == <<dedupFile, checks>>
mindVars == <<store, backups, mind>>
pluginVars == <<env, sessionFiles, recentObservations, mindInstance, hook, log>>

NoFile == [exists |-> FALSE, lines |-> <<>>]
FileOf(lines) == [exists |-> TRUE, lines |-> lines]
NoCall == [kind |-> "none"]
NoHandle == [owner |-> 0, openedIn |-> "none"]

\* The memory file as the engine sees it: its frames, its size in MB, and
\* the message of the error that use() raises on it ("" when it opens).
NoStore == [exists |-> FALSE, frames |-> <<>>, sizeMB |-> 0, error |-> ""]

\* The locals of a unit of work, and of the rest of a call: what it read,
\* its reading of the clock, the handle it obtained; for Mind.open also the
\* file and the backups it found, whether it tried the engine's open, and
\* how its rename to a backup went, and the backup names pruneBackups listed.
NoLocal ==
  [content |-> <<>>, now |-> 0, memvid |-> NoHandle, puts |-> 0, sessionObs |-> 0,
   found |-> NoStore, before |-> {}, tried |-> FALSE, rename |-> "none", listing |-> {}]
NoOutcome == [status |-> "none", value |-> "none"]
Resolved(v) == [status |-> "resolved", value |-> v]
Threw(e) == [status |-> "threw", value |-> e]
FreeLock == [held |-> FALSE, owner |-> 0, mtime |-> 0]
NoMind == [initialized |-> FALSE, memvid |-> NoHandle, writes |-> 0]

\* A variable of the environment: <<>> when it is not set, <<value>> when
\* it is set.
Unset == <<>>
Set(value) == <<value>>
NoEnv == [OPENCODE_SESSION_ID |-> Unset, OPENCODE_DIR |-> Unset,
          CLAUDE_PROJECT_DIR |-> Unset]

\* A session file that was never written, the plugin handler of a process
\* that runs none, and the plugin layer at rest.
NoSessionFile == [exists |-> FALSE, content |-> [json |-> FALSE, value |-> [text |-> ""]]]
NoHook == [kind |-> "none"]

\* mind.ts 467: let mindInstance: Mind | null = null.  The Minds of a run
\* are numbered as they are opened; current is the number of the Mind the
\* singleton holds, 0 for null.
NoInstance == [current |-> 0, opened |-> 0]
PluginQuiet ==
  /\ env = [p \in Procs |-> NoEnv]
  /\ sessionFiles = [f \in SessionPaths |-> NoSessionFile]
  /\ recentObservations = [p \in Procs |-> {}]
  /\ mindInstance = NoInstance
  /\ hook = [p \in Procs |-> NoHook]
  /\ log = <<>>

\* A file operation that can fail does so only while faults are left.
Outcomes == IF faults < MaxFaults THEN BOOLEAN ELSE {TRUE}

(* ============================ withMindLock ============================ *)

\* Mutant: every held lock is taken for abandoned.
IsStale_Eager(l) == l.held

\* proper-lockfile: a lock whose mtime is older than the stale interval is
\* taken for abandoned.
IsStale(l) == l.held /\ l.mtime < now - LOCK_OPTIONS.stale

\* Mutant: the lock excludes nobody.
CanAcquire_Always(l) == TRUE

\* lockfile.lock(lockPath, LOCK_OPTIONS) can take the lock.
CanAcquire(l) == ~l.held \/ IsStale(l)

\* Mutant: a contended acquisition gives up at its first attempt.
Exhausted_AtOnce(p) == TRUE

\* lock.ts 17-21: the retries of a contended acquisition are used up.
Exhausted(p) == now - waitStart[p] >= LockWaitMs

\* The unit of work of a call begins at this position.
FirstStep(kind) ==
  CASE kind = "dedup" -> "d_read"
    [] kind = "open" -> "o_check"
    [] kind = "remember" -> "r_use"
    [] kind = "context" -> "c_read"
    [] kind = "summary" -> "s_use"
    [] kind = "stats" -> "t_read"
    [] kind = "writeSessionInfo" -> "w_write"
    [] kind = "query" -> "q_read"

\* lock.ts 34-44: the lock file is created, then lockfile.lock either takes
\* the lock (also from a stale holder), keeps retrying, or, its retries
\* exhausted, rejects; the unit of work then never runs.
Acquire(p) ==
  /\ alive[p] /\ pc[p] = "lock"
  /\ LET l == lock[call[p].path] IN
       IF CanAcquire(l)
       THEN /\ lock' = [lock EXCEPT ![call[p].path] =
                          [held |-> TRUE, owner |-> p, mtime |-> now]]
            /\ pc' = [pc EXCEPT ![p] = FirstStep(call[p].kind)]
            /\ waitStart' = [waitStart EXCEPT ![p] = 0]
            /\ UNCHANGED result
       ELSE /\ Exhausted(p)
            /\ pc' = [pc EXCEPT ![p] = "returned"]
            /\ result' = [result EXCEPT ![p] = Threw("ELOCKED")]
            /\ waitStart' = [waitStart EXCEPT ![p] = 0]
            /\ UNCHANGED lock
  /\ UNCHANGED <<now, horizon, damage, alive, call, local, fnOutcome, releases, rejected,
                 budget, faults, dedupVars, pluginVars, mindVars>>

\* Mutant: no finally block; a unit of work that threw leaves the lock held.
Release_NoFinally(p) ==
  /\ alive[p] /\ pc[p] = "finally"
  /\ IF fnOutcome[p].status = "threw"
     THEN UNCHANGED <<lock, releases>>
     ELSE /\ lock' = [lock EXCEPT ![call[p].path] = FreeLock]
          /\ releases' = [releases EXCEPT ![p] = @ + 1]
  /\ result' = [result EXCEPT ![p] = fnOutcome[p]]
  /\ pc' = [pc EXCEPT ![p] = "returned"]
  /\ UNCHANGED <<now, horizon, damage, alive, call, waitStart, local, fnOutcome, rejected,
                 budget, faults, dedupVars, pluginVars, mindVars>>

\* lock.ts 46-50: try { return await fn() } finally { await release() }
Release(p) ==
  /\ alive[p] /\ pc[p] = "finally"
  /\ lock' = [lock EXCEPT ![call[p].path] = FreeLock]
  /\ releases' = [releases EXCEPT ![p] = @ + 1]
  /\ result' = [result EXCEPT ![p] = fnOutcome[p]]
  /\ pc' = [pc EXCEPT ![p] = "returned"]
  /\ UNCHANGED <<now, horizon, damage, alive, call, waitStart, local, fnOutcome, rejected,
                 budget, faults, dedupVars, pluginVars, mindVars>>

\* The call of p is over: its caller has the result or the error.
Finished(p) ==
  /\ pc' = [pc EXCEPT ![p] = "idle"]
  /\ call' = [call EXCEPT ![p] = NoCall]
  /\ local' = [local EXCEPT ![p] = NoLocal]
  /\ result' = [result EXCEPT ![p] = NoOutcome]
  /\ fnOutcome' = [fnOutcome EXCEPT ![p] = NoOutcome]
  /\ releases' = [releases EXCEPT ![p] = 0]
  /\ rejected' = IF result[p].status = "threw" THEN rejected + 1 ELSE rejected

\* The callers that return what withMindLock gave them: the dedup check,
\* remember, stats.
Return(p) ==
  /\ alive[p] /\ pc[p] = "returned"
  /\ call[p].kind \in {"dedup", "remember", "summary", "stats", "writeSessionInfo",
                      "readSessionInfo"}
  /\ Finished(p)
  /\ UNCHANGED <<now, horizon, damage, lock, alive, waitStart, budget, faults,
                 dedupVars, pluginVars, mindVars>>

\* A new call of p goes for the lock.
Enter(p, c) ==
  /\ alive[p] /\ pc[p] = "idle"
  /\ budget > 0
  /\ budget' = budget - 1
  /\ call' = [call EXCEPT ![p] = c]
  /\ pc' = [pc EXCEPT ![p] = "lock"]
  /\ waitStart' = [waitStart EXCEPT ![p] = now]
  /\ UNCHANGED <<local, fnOutcome, result, releases, rejected>>

(* ===================== isDuplicateAcrossProcesses ===================== *)

\* Mutant: the source is left out of the hash.
Hash_NoSource(source, toolName, toolInput) ==
  Md5Hex(toolName \o ":" \o Slice0(JSONStringifyInput(toolInput), 200))

\* dedup.ts 42-44
Hash(source, toolName, toolInput) ==
  Md5Hex(source \o ":" \o toolName \o ":" \o Slice0(JSONStringifyInput(toolInput), 200))

\* A line of the log: the JSON text of a value (JSON.stringify(entry), or
\* what something else wrote), or text that is no JSON.
Stringify(e) == [json |-> TRUE, value |-> e]
Null == [null |-> TRUE]
SyntaxError == [threw |-> "SyntaxError"]

\* Lines that no check wrote: text that is no JSON, an empty line, the JSON
\* text null, and a JSON object without a timestamp.
GarbageLine == [json |-> FALSE, value |-> [text |-> "{\"timestamp\":17"]]
EmptyLine == [json |-> FALSE, value |-> [text |-> ""]]
NullLine == Stringify(Null)
NoTimestampLine(hash) == Stringify([hash |-> hash])

\* dedup.ts 57: .filter(Boolean) drops the empty lines.
NonEmpty(line) == line # EmptyLine

\* Mutant: JSON.parse outside a try block: the SyntaxError is not caught.
JSONParse_NoCatch(line) == IF line.json THEN line.value ELSE SyntaxError

\* dedup.ts 58-64: try { return JSON.parse(line) } catch { return null }
JSONParse(line) == IF line.json THEN line.value ELSE Null

\* dedup.ts 65: now - e.timestamp < DEDUP_WINDOW_MS, which is false for a
\* value without a timestamp (the difference is NaN).
InWindow(e, t) == "timestamp" \in DOMAIN e /\ t - e.timestamp < DEDUP_WINDOW_MS

\* An error thrown by the map of dedup.ts 58-64 ends the unit of work.
MapThrows(lines) ==
  \E i \in 1..Len(lines) : NonEmpty(lines[i]) /\ JSONParse(lines[i]) = SyntaxError

\* readFile(dedupPath, "utf8").catch(() => ""), as lines
ReadLines(file) == IF file.exists THEN file.lines ELSE <<>>

\* Mutant: entries are parsed and never dropped for their age.
RECURSIVE ParseAndFilter_KeepAll(_, _)
ParseAndFilter_KeepAll(lines, t) ==
  IF lines = <<>> THEN <<>>
  ELSE LET e == JSONParse(Head(lines))
           rest == ParseAndFilter_KeepAll(Tail(lines), t)
       IN IF NonEmpty(Head(lines)) /\ e # Null /\ "timestamp" \in DOMAIN e
          THEN <<e>> \o rest ELSE rest

\* dedup.ts 56-65
RECURSIVE ParseAndFilter(_, _)
ParseAndFilter(lines, t) ==
  IF lines = <<>> THEN <<>>
  ELSE LET e == JSONParse(Head(lines))
           rest == ParseAndFilter(Tail(lines), t)
       IN IF NonEmpty(Head(lines)) /\ e # Null /\ InWindow(e, t)
          THEN <<e>> \o rest ELSE rest

\* dedup.ts 74-77: entries.map(e => JSON.stringify(e)).join("\n")
WriteLines(entries) == [i \in 1..Len(entries) |-> Stringify(entries[i])]

\* dedup.ts 35-51
DedupBegin(p) ==
  \E a \in CheckArgs :
    /\ Enter(p, [kind |-> "dedup", path |-> DedupLockPath, source |-> a[1],
                 toolName |-> a[2], toolInput |-> a[3],
                 hash |-> Hash(a[1], a[2], a[3]), entered |-> Len(checks)])
    /\ UNCHANGED <<now, horizon, damage, lock, alive, faults, dedupVars, pluginVars, mindVars>>

\* dedup.ts 52-53
DedupRead(p) ==
  /\ alive[p] /\ pc[p] = "d_read"
  /\ local' = [local EXCEPT ![p] =
                 [NoLocal EXCEPT !.content = ReadLines(dedupFile), !.now = now]]
  /\ pc' = [pc EXCEPT ![p] = "d_check"]
  /\ UNCHANGED <<now, horizon, damage, lock, alive, call, waitStart, fnOutcome, result,
                 releases, rejected, budget, faults, dedupVars, pluginVars, mindVars>>

\* dedup.ts 68: entries.some(e => e.hash === hash)
SomeHash(entries, hash) == \E i \in 1..Len(entries) : entries[i].hash = hash

\* Mutant: the new entry is not recorded.
Appended_Nothing(entries, t, hash, source) == entries

\* Mutant: the new entry is put in front of the list.
Appended_Front(entries, t, hash, source) ==
  <<[timestamp |-> t, hash |-> hash, source |-> source]>> \o entries

\* dedup.ts 73-77: the list that is persisted after a check that found no
\* duplicate
Appended(entries, t, hash, source) ==
  Append(entries, [timestamp |-> t, hash |-> hash, source |-> source])

\* Mutant: a duplicate renews the entries that are inside the window.
AfterDuplicate_Renewed(file, entries) ==
  FileOf(WriteLines([i \in 1..Len(entries) |-> [entries[i] EXCEPT !.timestamp = now]]))

\* Mutant: a duplicate persists the pruned list.
AfterDuplicate_Rewrite(file, entries) == FileOf(WriteLines(entries))

\* dedup.ts 68-70: a duplicate is reported without a write: the file stays
\* as it is, entries that have left the window included.
AfterDuplicate(file, entries) == file

\* dedup.ts 55-79
DedupCheck(p) ==
  /\ alive[p] /\ pc[p] = "d_check"
  /\ LET c == call[p]
         entries == ParseAndFilter(local[p].content, local[p].now)
         dup == SomeHash(entries, c.hash)
         done(outcome) ==
           /\ fnOutcome' = [fnOutcome EXCEPT ![p] = outcome]
           /\ checks' = Append(checks,
                 [source |-> c.source, toolName |-> c.toolName,
                  toolInput |-> c.toolInput, entered |-> c.entered,
                  now |-> local[p].now, outcome |-> outcome])
     IN IF MapThrows(local[p].content)
        THEN /\ done(Threw("SyntaxError"))
             /\ UNCHANGED <<dedupFile, faults>>
        ELSE IF dup
        THEN /\ done(Resolved("true"))
             /\ dedupFile' = AfterDuplicate(dedupFile, entries)
             /\ UNCHANGED faults
        ELSE \E written \in Outcomes :
               IF written
               THEN /\ dedupFile' = FileOf(WriteLines(Appended(entries, local[p].now, c.hash, c.source)))
                    /\ done(Resolved("false"))
                    /\ UNCHANGED faults
               ELSE /\ UNCHANGED dedupFile
                    /\ done(Threw("writeFile"))
                    /\ faults' = faults + 1
  /\ pc' = [pc EXCEPT ![p] = "finally"]
  /\ UNCHANGED <<now, horizon, damage, lock, alive, call, waitStart, local, result,
                 releases, rejected, budget, mindVars, pluginVars>>

(* ================================ Mind ================================ *)

\* create(memoryPath, "basic"): a new, empty memory at the path.
Created == [exists |-> TRUE, frames |-> <<>>, sizeMB |-> 0, error |-> ""]

\* use("basic", memoryPath): a handle, or the error the engine raises.
UseOutcome(s) ==
  IF ~s.exists THEN Threw("No such file or directory")
  ELSE IF s.error # "" THEN Threw(s.error)
  ELSE Resolved("memvid")

\* Mutant: the rename makes no backup.
Renamed_Nothing(files, t, file) == files

\* The files mind.mv2.backup-<timestamp>: a backup is its timestamp and the
\* file that was renamed to it.  renameSync replaces a backup of the same
\* name.
Renamed(files, t, file) ==
  {b \in files : b.time # t} \cup {[time |-> t, file |-> file]}

Times(files) == {b.time : b \in files}

\* Mutant: pruneBackups keeps the oldest backups.
pruneBackups_Oldest(times, keepCount) ==
  {t \in times : Cardinality({u \in times : u < t}) < keepCount}

\* mind.ts 67-76: of the backup names listed, sorted by their timestamp
\* with the newest first, the first keepCount stay.
pruneBackups(times, keepCount) ==
  {t \in times : Cardinality({u \in times : u > t}) < keepCount}

\* Mutant: no file is too large.
Oversized_Never(s) == FALSE

\* mind.ts 131-134: fileSizeMB > MAX_FILE_SIZE_MB
Oversized(s) == s.sizeMB > MAX_FILE_SIZE_MB

\* mind.ts 111-123
OpenBegin(p) ==
  /\ Enter(p, [kind |-> "open", path |-> MemoryPath])
  /\ UNCHANGED <<now, horizon, damage, lock, alive, faults, dedupVars, pluginVars, mindVars>>

\* mind.ts 124-145: a missing file is created; an oversized one is renamed
\* to a backup (a failure of the rename is ignored) and a new one created;
\* any other file is opened.
OpenCheck(p) ==
  /\ alive[p] /\ pc[p] = "o_check"
  /\ LET seen == [local[p] EXCEPT !.found = store, !.before = backups, !.now = now] IN
     IF ~store.exists
     THEN /\ pc' = [pc EXCEPT ![p] = "o_create"]
          /\ local' = [local EXCEPT ![p] = seen]
          /\ UNCHANGED <<store, backups, faults>>
     ELSE IF Oversized(store)
     THEN /\ pc' = [pc EXCEPT ![p] = "o_create"]
          /\ \E renamed \in Outcomes :
               IF renamed
               THEN /\ store' = NoStore
                    /\ backups' = Renamed(backups, now, store)
                    /\ local' = [local EXCEPT ![p] = [seen EXCEPT !.rename = "done"]]
                    /\ UNCHANGED faults
               ELSE /\ faults' = faults + 1
                    /\ local' = [local EXCEPT ![p] = [seen EXCEPT !.rename = "failed"]]
                    /\ UNCHANGED <<store, backups>>
     ELSE /\ pc' = [pc EXCEPT ![p] = "o_use"]
          /\ local' = [local EXCEPT ![p] = seen]
          /\ UNCHANGED <<store, backups, faults>>
  /\ UNCHANGED <<now, horizon, damage, lock, alive, call, waitStart, fnOutcome,
                 result, releases, rejected, budget, dedupVars, pluginVars, mind>>

\* Mutant: every error of the engine's open is taken for corruption.
IsCorruption_Always(msg) == TRUE

\* Mutant: no error of the engine's open is taken for corruption.
IsCorruption_Never(msg) == FALSE

\* mind.ts 152
IsCorruption(msg) == \E pat \in CORRUPTION_PATTERNS : Includes(msg, pat)

\* mind.ts 146-168: the file opens; or the engine raises an error whose
\* message shows corruption, and the file is renamed to a backup (or, the
\* rename failing, deleted; a failure of that is ignored too) before a new
\* one is created; or the engine raises another error, which is thrown.
OpenUse(p) ==
  /\ alive[p] /\ pc[p] = "o_use"
  /\ LET u == UseOutcome(store) IN
       IF u.status = "resolved"
       THEN /\ local' = [local EXCEPT ![p].memvid = [owner |-> p, openedIn |-> "open"],
                                      ![p].tried = TRUE]
            /\ fnOutcome' = [fnOutcome EXCEPT ![p] = Resolved("undefined")]
            /\ pc' = [pc EXCEPT ![p] = "finally"]
            /\ UNCHANGED <<store, backups, faults>>
       ELSE IF IsCorruption(u.value)
       THEN /\ pc' = [pc EXCEPT ![p] = "o_create"]
            /\ \E renamed \in Outcomes :
                 IF renamed
                 THEN /\ backups' = Renamed(backups, now, store)
                      /\ store' = NoStore
                      /\ local' = [local EXCEPT ![p].tried = TRUE, ![p].now = now,
                                                ![p].rename = "done"]
                      /\ UNCHANGED faults
                 ELSE \E unlinked \in IF faults + 1 < MaxFaults THEN BOOLEAN ELSE {TRUE} :
                        /\ store' = IF unlinked THEN NoStore ELSE store
                        /\ faults' = IF unlinked THEN faults + 1 ELSE faults + 2
                        /\ local' = [local EXCEPT ![p].tried = TRUE, ![p].now = now,
                                                  ![p].rename = "failed"]
                        /\ UNCHANGED backups
            /\ UNCHANGED fnOutcome
       ELSE /\ fnOutcome' = [fnOutcome EXCEPT ![p] = u]
            /\ local' = [local EXCEPT ![p].tried = TRUE]
            /\ pc' = [pc EXCEPT ![p] = "finally"]
            /\ UNCHANGED <<store, backups, faults>>
  /\ UNCHANGED <<now, horizon, damage, lock, alive, call, waitStart, result, releases,
                 rejected, budget, dedupVars, pluginVars, mind>>

\* mind.ts 126, 142, 164: memvid = await create(memoryPath, "basic")
OpenCreate(p) ==
  /\ alive[p] /\ pc[p] = "o_create"
  /\ store' = Created
  /\ local' = [local EXCEPT ![p].memvid = [owner |-> p, openedIn |-> "open"]]
  /\ fnOutcome' = [fnOutcome EXCEPT ![p] = Resolved("undefined")]
  /\ pc' = [pc EXCEPT ![p] = "finally"]
  /\ UNCHANGED <<now, horizon, damage, lock, alive, call, waitStart, result, releases,
                 rejected, budget, faults, dedupVars, pluginVars, backups, mind>>

\* mind.ts 171-175, 61-74: the lock section over, the Mind is built around
\* the handle, and pruneBackups lists the backups of the directory; when
\* the listing fails nothing is pruned.  An error of the lock section is
\* the error of open.
OpenFinish(p) ==
  /\ alive[p] /\ pc[p] = "returned" /\ call[p].kind = "open"
  /\ IF result[p].status = "resolved"
     THEN /\ mind' = [mind EXCEPT ![p] =
                        [initialized |-> TRUE, memvid |-> local[p].memvid, writes |-> 0]]
          /\ \E listed \in Outcomes :
               IF listed
               THEN /\ local' = [local EXCEPT ![p].listing = Times(backups)]
                    /\ pc' = [pc EXCEPT ![p] = "o_prune"]
                    /\ UNCHANGED <<call, result, fnOutcome, releases, rejected, faults>>
               ELSE /\ Finished(p)
                    /\ faults' = faults + 1
     ELSE /\ Finished(p)
          /\ UNCHANGED <<mind, faults>>
  /\ UNCHANGED <<now, horizon, damage, lock, alive, waitStart, budget,
                 dedupVars, pluginVars, store, backups>>

\* mind.ts 76-83, 177: the listed backups beyond the newest three are
\* deleted, a deletion that fails is passed over, and open returns the Mind.
OpenPrune(p) ==
  /\ alive[p] /\ pc[p] = "o_prune"
  /\ LET doomed == local[p].listing \ pruneBackups(local[p].listing, BackupKeepCount) IN
       \E failed \in IF faults < MaxFaults THEN SUBSET doomed ELSE {{}} :
         /\ backups' = {b \in backups : b.time \notin (doomed \ failed)}
         /\ faults' = IF failed = {} THEN faults ELSE faults + 1
  /\ Finished(p)
  /\ UNCHANGED <<now, horizon, damage, lock, alive, waitStart, budget,
                 dedupVars, pluginVars, store, mind>>

\* Mutant: a write puts through the handle cached at open time.
PutHandle_Cached(p) == mind[p].memvid

\* mind.ts 232-234, 372-374: freshMemvid
PutHandle(p) == local[p].memvid

\* freshMemvid = await use("basic", memoryPath), inside the lock section
FreshUse(p, from, to) ==
  /\ alive[p] /\ pc[p] = from
  /\ LET u == UseOutcome(store) IN
       IF u.status = "resolved"
       THEN /\ local' = [local EXCEPT ![p].memvid =
                           [owner |-> p, openedIn |-> call[p].kind]]
            /\ pc' = [pc EXCEPT ![p] = to]
            /\ UNCHANGED fnOutcome
       ELSE /\ fnOutcome' = [fnOutcome EXCEPT ![p] = u]
            /\ pc' = [pc EXCEPT ![p] = "finally"]
            /\ UNCHANGED local
  /\ UNCHANGED <<now, horizon, damage, lock, alive, call, waitStart, result, releases,
                 rejected, budget, faults, dedupVars, pluginVars, mindVars>>

\* { ...a, ...b }: the keys of b override those of a
Spread(a, b) ==
  [k \in DOMAIN a \cup DOMAIN b |-> IF k \in DOMAIN b THEN b[k] ELSE a[k]]

\* An object without keys: a RememberInput without metadata.
NoMetadata == [k \in {} |-> ""]

\* mind.ts 104: the session id a Mind gives itself when it is built
MindSessionId(p) == "mind-session-" \o ToString(p)

\* mind.ts 207: VALID_SOURCES
VALID_SOURCES == {"opencode", "claude-code"}

\* Mutant: the source is stored as it was given.
effectiveSource_AsGiven(metadata) == Get(metadata, "source")

\* mind.ts 209-213: a source that is missing, empty or not a valid one
\* becomes "opencode"
effectiveSource(metadata) ==
  LET rawSource == Get(metadata, "source") IN
    IF rawSource # "" /\ rawSource \in VALID_SOURCES THEN rawSource ELSE "opencode"

\* mind.ts 204, 215-227, 234-247: the record remember hands to put, without
\* the id and the timestamp; the metadata of the observation override the
\* fields set before them.
RememberRecord(input, sessionId) ==
  LET effectiveSessionId == Or(Get(input.metadata, "sessionId"), sessionId)
      observation ==
        Spread(input.metadata,
               [sessionId |-> effectiveSessionId,
                source |-> effectiveSource(input.metadata)])
  IN  [label |-> input.type,
       title |-> "[" \o input.type \o "] " \o input.summary,
       text |-> input.content,
       metadata |->
         Spread([tool |-> input.tool,
                 sessionId |-> effectiveSessionId,
                 source |-> effectiveSource(input.metadata)],
                observation)]

\* mind.ts 358-383: the record saveSessionSummary hands to put, without its
\* times; the text is the summary as JSON, which stands for itself here.
SummaryRecord(sessionId, observationCount) ==
  [label |-> "session",
   title |-> "Session Summary",
   text |-> "summary",
   metadata |-> [id |-> sessionId,
                 observationCount |-> observationCount, source |-> "opencode"]]

\* mind.test.ts 29-33: a remember without tool and metadata
TestInput ==
  [type |-> "discovery", summary |-> "Test observation", content |-> "Test content",
   tool |-> "", metadata |-> NoMetadata]

\* The record the put of the running call hands over.
PutRecord(p) ==
  IF call[p].kind = "remember"
  THEN RememberRecord(call[p].input, MindSessionId(p))
  ELSE SummaryRecord(MindSessionId(p), call[p].observationCount)

\* handle.put(frame): the frame is appended to the memory and its id
\* returned, or the engine raises and nothing is stored.
Put(p, from, handle, label, count) ==
  /\ alive[p] /\ pc[p] = from
  /\ \E stored \in Outcomes :
       IF stored
       THEN /\ store' = [store EXCEPT !.frames = Append(@,
                           [label |-> label, by |-> p, count |-> count,
                            text |-> PutRecord(p).text,
                            metadata |-> PutRecord(p).metadata,
                            handle |-> handle.openedIn,
                            locked |-> lock[call[p].path].held
                                         /\ lock[call[p].path].owner = p])]
            /\ local' = [local EXCEPT ![p].puts = @ + 1]
            /\ fnOutcome' = [fnOutcome EXCEPT ![p] = Resolved(ToString(Len(store.frames)))]
            /\ UNCHANGED faults
       ELSE /\ fnOutcome' = [fnOutcome EXCEPT ![p] = Threw("put")]
            /\ faults' = faults + 1
            /\ UNCHANGED <<store, local>>
  /\ pc' = [pc EXCEPT ![p] = "finally"]
  /\ UNCHANGED <<now, horizon, damage, lock, alive, call, waitStart, result, releases,
                 rejected, budget, dedupVars, pluginVars, backups, mind>>

\* mind.ts 201-228
Remember(p, input) ==
  /\ mind[p].initialized
  /\ Enter(p, [kind |-> "remember", path |-> MemoryPath, input |-> input])
  /\ mind' = [mind EXCEPT ![p].writes = @ + 1]
  /\ UNCHANGED <<now, horizon, damage, lock, alive, faults, dedupVars, pluginVars,
                 store, backups>>

\* mind.test.ts 29-33, 128-132
RememberBegin(p) == Remember(p, TestInput)

\* mind.ts 229-232
RememberUse(p) == FreshUse(p, "r_use", "r_put")

\* mind.ts 234-247
RememberPut(p) == Put(p, "r_put", PutHandle(p), call[p].input.type, 0)

\* mind.ts 347-353: saveSessionSummary first calls getContext, which takes
\* the lock for itself.
SummaryBegin(p) ==
  /\ mind[p].initialized
  /\ Enter(p, [kind |-> "context", path |-> MemoryPath])
  /\ UNCHANGED <<now, horizon, damage, lock, alive, faults, dedupVars, pluginVars, mindVars>>

\* The observations of the session of p among the frames.
SessionObs(frames, p) ==
  Cardinality({i \in 1..Len(frames) :
                 Get(frames[i].metadata, "sessionId") = MindSessionId(p)})

\* mind.ts 295-340, 354-356: the timeline is read through the handle of the
\* Mind, and the observations of this session are counted.
ContextRead(p) ==
  /\ alive[p] /\ pc[p] = "c_read"
  /\ local' = [local EXCEPT ![p].sessionObs = SessionObs(store.frames, p)]
  /\ fnOutcome' = [fnOutcome EXCEPT ![p] = Resolved("context")]
  /\ pc' = [pc EXCEPT ![p] = "finally"]
  /\ UNCHANGED <<now, horizon, damage, lock, alive, call, waitStart, result, releases,
                 rejected, budget, faults, dedupVars, pluginVars, mindVars>>

\* Mutant: the lock for the write is asked for inside the lock section of
\* getContext.
SummaryLock_Nested(p) ==
  /\ alive[p] /\ pc[p] = "finally" /\ call[p].kind = "context"
  /\ call' = [call EXCEPT ![p] =
                [kind |-> "summary", path |-> MemoryPath,
                 observationCount |-> local[p].sessionObs]]
  /\ pc' = [pc EXCEPT ![p] = "lock"]
  /\ waitStart' = [waitStart EXCEPT ![p] = now]
  /\ UNCHANGED <<now, horizon, damage, lock, alive, local, fnOutcome, result, releases,
                 rejected, budget, faults, dedupVars, pluginVars, mindVars>>

\* mind.ts 353-368: getContext has returned and released the lock; the
\* summary is built and the lock is taken again for the write.  An error
\* of getContext is the error of saveSessionSummary.
SummaryLock(p) ==
  /\ alive[p] /\ pc[p] = "returned" /\ call[p].kind = "context"
  /\ IF result[p].status = "resolved"
     THEN /\ call' = [call EXCEPT ![p] =
                        [kind |-> "summary", path |-> MemoryPath,
                         observationCount |-> local[p].sessionObs]]
          /\ pc' = [pc EXCEPT ![p] = "lock"]
          /\ waitStart' = [waitStart EXCEPT ![p] = now]
          /\ local' = [local EXCEPT ![p] = NoLocal]
          /\ result' = [result EXCEPT ![p] = NoOutcome]
          /\ fnOutcome' = [fnOutcome EXCEPT ![p] = NoOutcome]
          /\ releases' = [releases EXCEPT ![p] = 0]
          /\ UNCHANGED rejected
     ELSE Finished(p) /\ UNCHANGED waitStart
  /\ UNCHANGED <<now, horizon, damage, lock, alive, budget, faults, dedupVars, pluginVars, mindVars>>

\* mind.ts 369-372
SummaryUse(p) == FreshUse(p, "s_use", "s_put")

\* mind.ts 374-383
SummaryPut(p) == Put(p, "s_put", PutHandle(p), "session", call[p].observationCount)

\* mind.ts 390-391
StatsBegin(p) ==
  /\ mind[p].initialized
  /\ Enter(p, [kind |-> "stats", path |-> MemoryPath])
  /\ UNCHANGED <<now, horizon, damage, lock, alive, faults, dedupVars, pluginVars, mindVars>>

\* Mutant: the handle of the Mind reports the memory as it was opened.
StatsRead_Cached(p) ==
  /\ alive[p] /\ pc[p] = "t_read"
  /\ fnOutcome' = [fnOutcome EXCEPT ![p] = Resolved(ToString(0))]
  /\ pc' = [pc EXCEPT ![p] = "finally"]
  /\ UNCHANGED <<now, horizon, damage, lock, alive, call, waitStart, local, result,
                 releases, rejected, budget, faults, dedupVars, pluginVars, mindVars>>

\* mind.ts 392-446: totalObservations is the frame count the engine
\* reports through the handle of the Mind.
StatsRead(p) ==
  /\ alive[p] /\ pc[p] = "t_read"
  /\ fnOutcome' = [fnOutcome EXCEPT ![p] = Resolved(ToString(Len(store.frames)))]
  /\ pc' = [pc EXCEPT ![p] = "finally"]
  /\ UNCHANGED <<now, horizon, damage, lock, alive, call, waitStart, local, result,
                 releases, rejected, budget, faults, dedupVars, pluginVars, mindVars>>

(* ============================== sessions ============================== *)

\* if (process.env.X): the variable is set and its value is not empty
TruthyVar(v) == v # Unset /\ v[1] # ""

\* Mutant: the Claude signal is looked at first.
detectSource_ClaudeFirst(e) ==
  IF TruthyVar(e.CLAUDE_PROJECT_DIR) THEN "claude-code" ELSE "opencode"

\* dedup.ts 110-118
detectSource(e) ==
  IF TruthyVar(e.OPENCODE_SESSION_ID) THEN "opencode"
  ELSE IF TruthyVar(e.OPENCODE_DIR) THEN "opencode"
  ELSE IF TruthyVar(e.CLAUDE_PROJECT_DIR) /\ ~TruthyVar(e.OPENCODE_SESSION_ID)
       THEN "claude-code"
  ELSE "opencode"

\* session.test.ts 76-88
SessionIds == {"first-session", "second-session"}

\* dedup.ts 123-133: the directory is made and the lock of the session
\* file is asked for.
WriteSessionBegin(p) ==
  \E source \in SessionSources, sessionId \in SessionIds :
    /\ Enter(p, [kind |-> "writeSessionInfo", path |-> SessionLockPath(source),
                 source |-> source, sessionId |-> sessionId])
    /\ UNCHANGED <<now, horizon, damage, lock, alive, faults, dedupVars, mindVars,
                   pluginVars>>

\* dedup.ts 134-139: the info is written over the file of the source.
SessionWrite(p) ==
  /\ alive[p] /\ pc[p] = "w_write"
  /\ LET c == call[p]
         info == [sessionId |-> c.sessionId, source |-> c.source, startTime |-> now]
     IN \E written \in Outcomes :
          IF written
          THEN /\ sessionFiles' =
                    [sessionFiles EXCEPT ![getSessionPath(Directory, c.source)] =
                       [exists |-> TRUE, content |-> Stringify(info)]]
               /\ log' = Append(log, [op |-> "writeSessionInfo", source |-> c.source,
                                      sessionId |-> c.sessionId])
               /\ fnOutcome' = [fnOutcome EXCEPT ![p] = Resolved("undefined")]
               /\ UNCHANGED faults
          ELSE /\ fnOutcome' = [fnOutcome EXCEPT ![p] = Threw("writeFile")]
               /\ faults' = faults + 1
               /\ UNCHANGED <<sessionFiles, log>>
  /\ pc' = [pc EXCEPT ![p] = "finally"]
  /\ UNCHANGED <<now, horizon, damage, lock, alive, call, waitStart, local, result,
                 releases, rejected, budget, dedupVars, mindVars, env,
                 recentObservations, mindInstance, hook>>

\* dedup.ts 152-157: the file is read and parsed; a file that is missing or
\* does not parse gives null.
ReadInfo(file) == IF file.exists THEN JSONParse(file.content) ELSE Null

\* dedup.ts 146-158: readSessionInfo takes no lock.
ReadSessionInfo(p) ==
  /\ alive[p] /\ pc[p] = "idle"
  /\ budget > 0
  /\ budget' = budget - 1
  /\ \E source \in SessionSources :
       /\ call' = [call EXCEPT ![p] =
                     [kind |-> "readSessionInfo", source |-> source, at |-> Len(log)]]
       /\ result' = [result EXCEPT ![p] =
                       Resolved(ReadInfo(sessionFiles[getSessionPath(Directory, source)]))]
  /\ pc' = [pc EXCEPT ![p] = "returned"]
  /\ UNCHANGED <<now, horizon, damage, lock, alive, waitStart, local, fnOutcome,
                 releases, rejected, faults, dedupVars, mindVars, pluginVars>>

(* ============================ tool capture ============================ *)

\* part_002 15-28
OBSERVED_TOOLS ==
  {"read", "edit", "write", "bash", "grep", "glob", "webfetch", "websearch", "task",
   "codesearch", "notebookedit", "update"}

\* part_002 31-36
ALWAYS_CAPTURE_TOOLS == {"edit", "write", "update", "notebookedit"}

MIN_OUTPUT_LENGTH == 50

MAX_OUTPUT_LENGTH == 2500

\* part_002 43-47
SKIP_PATTERNS == {"<system-reminder>", "<memvid-mind-context>", "<opencode-mind-context>"}

\* Mutant: the output is not searched for system content.
Skipped_ShortOnly(toolName, toolOutput) ==
  toolName \notin ALWAYS_CAPTURE_TOOLS /\ Len(toolOutput) < MIN_OUTPUT_LENGTH

\* part_002 76-86: a short output of a tool that is not always captured,
\* and an output that holds system content, are not stored.
Skipped(toolName, toolOutput) ==
  \/ toolName \notin ALWAYS_CAPTURE_TOOLS /\ Len(toolOutput) < MIN_OUTPUT_LENGTH
  \/ \E pat \in SKIP_PATTERNS : Includes(toolOutput, pat)

\* part_002 89-94
EffectiveOutput(toolName, metadata, toolOutput) ==
  IF toolName \in ALWAYS_CAPTURE_TOOLS /\ Len(toolOutput) < MIN_OUTPUT_LENGTH
  THEN LET filePath == Or(Or(Get(metadata, "filePath"), Get(metadata, "file_path")),
                          "unknown")
           fileName == Or(BaseNameOfPath(filePath), "file")
       IN  "File modified: " \o fileName \o "\nPath: " \o filePath
             \o "\nTool: " \o toolName
  ELSE toolOutput

\* lower.includes(w) for one of the words
IncludesAny(lower, words) == \E w \in words : Includes(lower, w)

\* helpers.ts 70-105, on the output and the tool name in lower case
Classified(tool, lower) ==
  IF IncludesAny(lower, {"error", "failed", "exception"}) THEN "problem"
  ELSE IF IncludesAny(lower, {"success", "passed", "completed"}) THEN "success"
  ELSE IF IncludesAny(lower, {"warning", "deprecated"}) THEN "warning"
  ELSE IF tool \in {"read", "glob", "grep"} THEN "discovery"
  ELSE IF tool \in {"edit", "update"}
       THEN (IF IncludesAny(lower, {"fix", "bug"}) THEN "bugfix" ELSE "refactor")
  ELSE IF tool = "write" THEN "feature"
  ELSE "discovery"

\* helpers.ts 66-106
classifyObservationType(toolName, output) ==
  Classified(ToLowerCase(toolName), ToLowerCase(output))

\* part_002 114: compressed.slice(0, MAX_OUTPUT_LENGTH)
Content(compressed) == Slice0(compressed, MAX_OUTPUT_LENGTH)

\* part_002 109-123: what handleToolCapture hands to remember, given the
\* result c of the compression; extra holds the session id and the source,
\* which the older hook does not set.
Captured(toolName, output, c, extra) ==
  [type |-> classifyObservationType(toolName, c.compressed),
   summary |-> Or(output.title, toolName \o " completed"),
   content |-> Content(c.compressed),
   tool |-> toolName,
   metadata |->
     Spread(Spread(output.metadata,
                   IF c.wasCompressed
                   THEN [compressed |-> TRUE, originalSize |-> c.originalSize]
                   ELSE [compressed |-> FALSE]),
            extra)]

\* part_002 89-108
CaptureInput(toolName, output, autoCompress, extra) ==
  Captured(toolName, output,
           compressToolOutput(toolName, output.metadata,
                              EffectiveOutput(toolName, output.metadata, output.output),
                              autoCompress),
           extra)

(* ------------------- the cache of the in-process hook ----------------- *)
CACHE_MAX_SIZE == 100

CACHE_STALE_MS == 120000

\* A rest of the tools: longer than the stale time of the cache.
PauseMs == CACHE_STALE_MS + TickMs

\* tool-capture.ts 53-55
getObservationKey(toolName, callId) == toolName \o ":" \o callId

\* tool-capture.ts 57-61
isDuplicate(cache, key, t) ==
  \E e \in cache : e.key = key /\ t - e.lastSeen < DEDUP_WINDOW_MS

\* tool-capture.ts 63-74: the key is set to the time; a cache that has
\* grown beyond its maximum is rid of the entries older than the stale
\* time, and of no others.
markObserved(cache, key, t) ==
  LET set == {e \in cache : e.key # key} \cup {[key |-> key, lastSeen |-> t]} IN
    IF Cardinality(set) > CACHE_MAX_SIZE
    THEN {e \in set : ~(t - e.lastSeen > CACHE_STALE_MS)}
    ELSE set

\* The memory after a put of the record by p, created when it was not there.
Stored(s, p, record) ==
  [(IF s.exists THEN s ELSE Created) EXCEPT !.frames = Append(@,
     [label |-> record.label, by |-> p, count |-> 0, text |-> record.text,
      metadata |-> record.metadata, handle |-> "remember", locked |-> TRUE])]

\* The outputs the cached hook is given: one long enough to be stored and
\* one too short.
CacheOutputs ==
  {[title |-> "Read file", output |-> Repeat("x", MIN_OUTPUT_LENGTH + 10),
    metadata |-> [file_path |-> "/test/file1.ts"]],
   [title |-> "Read file", output |-> "short", metadata |-> [file_path |-> "/test/file1.ts"]]}

\* tool-capture.ts 79-143: the hook with the in-process cache, run by the
\* one process that has the tools, with no other hook running beside it.  A
\* call that is not stored leaves everything as it was; a remember that
\* fails rejects the hook before the key is marked.  The call is a new one
\* or the last one stored, over again; hook[p].calls counts the calls stored.
CaptureInProcess(p) ==
  /\ alive[p] /\ pc[p] = "idle" /\ hook[p].kind = "tool.execute.after"
  /\ Len(store.frames) < MaxObserved
  /\ \E tool \in {"Read", "TodoWrite"},
        callID \in {ToString(hook[p].calls), ToString(hook[p].calls + 1)},
        output \in CacheOutputs :
       LET toolName == ToLowerCase(tool)
           key == getObservationKey(toolName, callID)
       IN  IF \/ toolName \notin OBSERVED_TOOLS
              \/ isDuplicate(recentObservations[p], key, now)
              \/ Skipped(toolName, output.output)
           THEN UNCHANGED <<store, recentObservations, faults, rejected, hook>>
           ELSE \E stored \in Outcomes :
                  IF stored
                  THEN /\ store' = Stored(store, p,
                            RememberRecord(CaptureInput(toolName, output, TRUE, NoMetadata),
                                           MindSessionId(p)))
                       /\ recentObservations' =
                            [recentObservations EXCEPT ![p] = markObserved(@, key, now)]
                       /\ hook' = [hook EXCEPT ![p].calls =
                                     IF callID = ToString(@) THEN @ ELSE @ + 1]
                       /\ UNCHANGED <<faults, rejected>>
                  ELSE /\ faults' = faults + 1
                       /\ rejected' = rejected + 1
                       /\ UNCHANGED <<store, recentObservations, hook>>
  /\ UNCHANGED <<now, horizon, damage, lock, alive, pc, call, waitStart, local, fnOutcome,
                 result, releases, budget, dedupVars, backups, mind, env, sessionFiles,
                 mindInstance, log>>

\* The tools rest for longer than the stale time of the cache.
Pause ==
  /\ now + PauseMs <= horizon
  /\ now' = now + PauseMs
  /\ UNCHANGED <<horizon, damage, lock, alive, pc, call, waitStart, local, fnOutcome,
                 result, releases, rejected, budget, faults, dedupVars, mindVars,
                 pluginVars>>

(* ------------------------- getMind, resetMind ------------------------- *)

\* What the log keeps of getMind and resetMind: a call of getMind by a
\* task, its return with the Mind it returned (0 when it rejected) and
\* whether it had gone through Mind.open, and a resetMind.
CallEntry(p) == [op |-> "getMind", task |-> p]
ReturnEntry(p, value, viaOpen) ==
  [op |-> "return", task |-> p, value |-> value, opened |-> viaOpen]
ResetEntry == [op |-> "resetMind"]

\* mind.ts 473: if (!mindInstance)
Vacant(p) == mindInstance.current = 0

\* mind.ts 472-476, up to the await: a call that finds the singleton set
\* returns it at once; one that finds it empty begins Mind.open.  The
\* calls that run side by side here are tasks of one Node process.
GetMindBegin(p) ==
  /\ alive[p] /\ pc[p] = "idle" /\ hook[p] = NoHook
  /\ budget > 0
  /\ IF ~Vacant(p)
     THEN /\ budget' = budget - 1
          /\ log' = log \o <<CallEntry(p),
                             ReturnEntry(p, mindInstance.current, FALSE)>>
          /\ UNCHANGED <<call, pc, waitStart, local, fnOutcome, result, releases,
                         rejected, mind, hook>>
     ELSE /\ Enter(p, [kind |-> "open", path |-> MemoryPath])
          /\ mind' = [mind EXCEPT ![p] = NoMind]
          /\ hook' = [hook EXCEPT ![p] = [kind |-> "getMind"]]
          /\ log' = Append(log, CallEntry(p))
  /\ UNCHANGED <<now, horizon, damage, lock, alive, faults, dedupVars, store, backups,
                 env, sessionFiles, recentObservations, mindInstance>>

\* mind.ts 474-476, after the await: the Mind that open returned is
\* assigned to the singleton, and the singleton is returned; an error of
\* open is the error of getMind.
GetMindReturn(p) ==
  /\ alive[p] /\ pc[p] = "idle" /\ hook[p].kind = "getMind"
  /\ hook' = [hook EXCEPT ![p] = NoHook]
  /\ IF mind[p].initialized
     THEN /\ mindInstance' = [current |-> mindInstance.opened + 1,
                              opened |-> mindInstance.opened + 1]
          /\ log' = Append(log, ReturnEntry(p, mindInstance.opened + 1, TRUE))
     ELSE /\ log' = Append(log, ReturnEntry(p, 0, TRUE))
          /\ UNCHANGED mindInstance
  /\ UNCHANGED <<now, horizon, damage, lock, alive, pc, call, waitStart, local, fnOutcome,
                 result, releases, rejected, budget, faults, dedupVars, mindVars,
                 env, sessionFiles, recentObservations>>

\* mind.ts 482-484
ResetMind ==
  /\ budget > 0
  /\ budget' = budget - 1
  /\ mindInstance' = [mindInstance EXCEPT !.current = 0]
  /\ log' = Append(log, ResetEntry)
  /\ UNCHANGED <<now, horizon, damage, lock, alive, pc, call, waitStart, local, fnOutcome,
                 result, releases, rejected, faults, dedupVars, mindVars,
                 env, sessionFiles, recentObservations, hook>>

(* ======================= the hooks of the plugin ====================== *)

\* Mutant: the handler has no try block: the error goes to the host.
Caught_Rethrown(outcome) == outcome

\* index.ts 118-125, 131-135: try { await handle...(...) } catch (err)
\* { debug(...) }: however the work ended, the handler resolves.
Caught(outcome) == Resolved("undefined")

\* What the log keeps of a tool.execute.after handler that is over: what
\* it did with the call, the key of the call, the time, and how the
\* handler ended for the host.
ToolEntry(p, did, hash, outcome) ==
  [op |-> "tool.execute.after", by |-> p, did |-> did, hash |-> hash, at |-> now,
   cause |-> outcome.value, outcome |-> Caught(outcome).status]

\* What the log keeps of an event handler that is over.
EventEntry(p, event, did, outcome) ==
  [op |-> event, by |-> p, did |-> did, at |-> now,
   cause |-> outcome.value, outcome |-> Caught(outcome).status]

\* The handler of p goes on to its next call; the call before it is over.
Proceed(p, c) ==
  /\ call' = [call EXCEPT ![p] = c]
  /\ pc' = [pc EXCEPT ![p] = "lock"]
  /\ waitStart' = [waitStart EXCEPT ![p] = now]
  /\ local' = [local EXCEPT ![p] = NoLocal]
  /\ result' = [result EXCEPT ![p] = NoOutcome]
  /\ fnOutcome' = [fnOutcome EXCEPT ![p] = NoOutcome]
  /\ releases' = [releases EXCEPT ![p] = 0]

\* The session id the host gives with a tool call.
HostSessionId == "host-session"

\* dedup.ts 163-176: the session id of the session file of the source, or
\* the fallback
getSessionId(files, source, fallbackId) ==
  LET info == ReadInfo(files[getSessionPath(Directory, source)]) IN
    IF info # Null /\ Get(info, "sessionId") # "" THEN info.sessionId ELSE fallbackId

\* What the host hands to the hook after a tool: a read with an output
\* long enough to be stored, the same read with a short output, and a
\* tool that is not observed.
HostCalls ==
  {[tool |-> "Read", title |-> "Read file", output |-> Repeat("x", MIN_OUTPUT_LENGTH + 10),
    metadata |-> [file_path |-> "/test/file1.ts"]],
   [tool |-> "Read", title |-> "Read file", output |-> "short",
    metadata |-> [file_path |-> "/test/file1.ts"]],
   [tool |-> "TodoWrite", title |-> "", output |-> "ok",
    metadata |-> [file_path |-> "/test/file1.ts"]]}

\* index.ts 130-132, part_002 58-71: the host hands one of the calls to
\* the hook; a tool that is not observed ends the handler; for any other
\* the dedup check is made.
ToolAfterOf(p, calls) ==
  /\ alive[p] /\ pc[p] = "idle" /\ hook[p] = NoHook
  /\ budget > 0
  /\ \E c \in calls :
       LET toolName == ToLowerCase(c.tool)
           source == detectSource(env[p])
           hash == Hash(source, toolName, c.metadata)
       IN  IF toolName \notin OBSERVED_TOOLS
           THEN /\ budget' = budget - 1
                /\ log' = Append(log, ToolEntry(p, "unobserved", "", Resolved("undefined")))
                /\ UNCHANGED <<call, pc, waitStart, local, fnOutcome, result, releases,
                               rejected, hook>>
           ELSE /\ Enter(p, [kind |-> "dedup", path |-> DedupLockPath, source |-> source,
                             toolName |-> toolName, toolInput |-> c.metadata,
                             hash |-> hash, entered |-> Len(checks)])
                /\ hook' = [hook EXCEPT ![p] =
                              [kind |-> "tool.execute.after", stage |-> "dedup",
                               toolName |-> toolName, output |-> c, source |-> source,
                               hash |-> hash]]
                /\ UNCHANGED log
  /\ UNCHANGED <<now, horizon, damage, lock, alive, faults, dedupVars, mindVars, env,
                 sessionFiles, recentObservations, mindInstance>>

\* index.ts 130-136
ToolAfter(p) == ToolAfterOf(p, HostCalls)

\* What the host hands to the hook when every rule of the capture is to
\* have its case: the calls above; file modifications with a short output,
\* with a path and without one; outputs long enough to be stored that hold
\* a marker of system content, the plugin's own among them; and a file
\* modification with a short output that holds one.
CaptureCalls ==
  HostCalls \cup
  {[tool |-> "Edit", title |-> "Edit file", output |-> "ok",
    metadata |-> [file_path |-> "/src/app.ts"]],
   [tool |-> "write", title |-> "", output |-> "",
    metadata |-> [file_path |-> ""]],
   [tool |-> "Bash", title |-> "Run",
    output |-> Repeat("y", MIN_OUTPUT_LENGTH) \o "<system-reminder>be brief</system-reminder>",
    metadata |-> [file_path |-> "/test/run.sh"]],
   [tool |-> "Read", title |-> "Read file",
    output |-> "<opencode-mind-context>\n# Memory Context\n" \o Repeat("z", MIN_OUTPUT_LENGTH),
    metadata |-> [file_path |-> "/test/prompt.md"]],
   [tool |-> "Update", title |-> "Update file", output |-> "<memvid-mind-context>",
    metadata |-> [file_path |-> "/src/app.ts"]]}

\* index.ts 130-136, for any of these calls
ToolAfterAny(p) == ToolAfterOf(p, CaptureCalls)

\* The handler of the tool call is over while p is in a call that has
\* returned.
ToolEnd(p, did, outcome) ==
  /\ Finished(p)
  /\ hook' = [hook EXCEPT ![p] = NoHook]
  /\ log' = Append(log, ToolEntry(p, did, hook[p].hash, outcome))
  /\ UNCHANGED <<waitStart, mind>>

\* part_002 97-123 (index.ts 83-86: the Mind is there): the session id is
\* read, the output compressed, and remember called.
ToolRemember(p) ==
  /\ Proceed(p, [kind |-> "remember", path |-> MemoryPath,
                 input |-> CaptureInput(hook[p].toolName, hook[p].output, TRUE,
                             [sessionId |-> getSessionId(sessionFiles, hook[p].source,
                                                         HostSessionId),
                              source |-> hook[p].source])])
  /\ mind' = [mind EXCEPT ![p].writes = @ + 1]
  /\ hook' = [hook EXCEPT ![p].stage = "remember"]
  /\ UNCHANGED <<log, rejected>>

\* part_002 71-97: an error of the check ends the handler, and so does a
\* duplicate, a short output and system content; otherwise the Mind is
\* asked for (index.ts 83-86), which opens it when the process has none.
ToolAfterDedup(p) ==
  /\ alive[p] /\ pc[p] = "returned" /\ call[p].kind = "dedup"
  /\ hook[p].kind = "tool.execute.after"
  /\ IF result[p].status = "threw" THEN ToolEnd(p, "failed", result[p])
     ELSE IF result[p].value = "true" THEN ToolEnd(p, "duplicate", result[p])
     ELSE IF Skipped(hook[p].toolName, hook[p].output.output)
     THEN ToolEnd(p, "skipped", result[p])
     ELSE IF mind[p].initialized THEN ToolRemember(p)
     ELSE /\ Proceed(p, [kind |-> "open", path |-> MemoryPath])
          /\ hook' = [hook EXCEPT ![p].stage = "open"]
          /\ UNCHANGED <<log, rejected, mind>>
  /\ UNCHANGED <<now, horizon, damage, lock, alive, budget, faults, dedupVars, store,
                 backups, env, sessionFiles, recentObservations, mindInstance>>

\* part_002 97: getMind has returned the Mind, or has rejected.
ToolAfterOpen(p) ==
  /\ alive[p] /\ pc[p] = "idle"
  /\ hook[p].kind = "tool.execute.after" /\ hook[p].stage = "open"
  /\ IF mind[p].initialized
     THEN ToolRemember(p)
     ELSE /\ hook' = [hook EXCEPT ![p] = NoHook]
          /\ log' = Append(log, ToolEntry(p, "failed", hook[p].hash, Threw("open")))
          /\ UNCHANGED <<call, pc, waitStart, local, fnOutcome, result, releases,
                         rejected, mind>>
  /\ UNCHANGED <<now, horizon, damage, lock, alive, budget, faults, dedupVars, store,
                 backups, env, sessionFiles, recentObservations, mindInstance>>

\* part_002 111-125: remember has stored the observation, or has rejected.
ToolAfterRemember(p) ==
  /\ alive[p] /\ pc[p] = "returned" /\ call[p].kind = "remember"
  /\ hook[p].kind = "tool.execute.after"
  /\ ToolEnd(p, IF result[p].status = "resolved" THEN "stored" ELSE "failed", result[p])
  /\ UNCHANGED <<now, horizon, damage, lock, alive, budget, faults, dedupVars, store,
                 backups, env, sessionFiles, recentObservations, mindInstance>>

(* ----------------------------- session end ---------------------------- *)
MIN_OBSERVATIONS_FOR_SUMMARY == 3

\* session-end.ts 28: /^(README|CHANGELOG|package\.json|Cargo\.toml|\.env)/i
IsImportant(fileName) ==
  \E prefix \in {"readme", "changelog", "package.json", "cargo.toml", ".env"} :
    StartsWith(ToLowerCase(fileName), prefix)

\* session-end.ts 144: file.split("/").pop() || file
FileNameOf(file) == Or(BaseNameOfPath(file), file)

\* The files the shell commands of a session end can report, with what
\* git diff HEAD --stat | head -30 printed: none; one; three, two of them
\* important, with a summary of the changes; and ManyFiles files.
ChangedFiles(n) ==
  [i \in 1..n |-> "packages/application/src/components/feature-" \o ToString(i)
                    \o "/subcomponents/implementation/index.module.ts"]

FileLists ==
  {[files |-> <<>>, diff |-> ""],
   [files |-> <<"src/index.ts">>, diff |-> ""],
   [files |-> <<"README.md", "package.json", "src/index.ts">>,
    diff |-> " 3 files changed, 2 insertions(+)\n"],
   [files |-> ChangedFiles(ManyFiles), diff |-> ""]}

\* session-end.ts 119-126: the list of the files, and the summary of the
\* changes when there is one, joined at their full length.  (The fence of
\* three backquotes is written ~~~ here.)
ChangesContent(uniqueFiles, gitDiffContent) ==
  LET Item(f) == "- " \o f
      files == "## Files Modified This Session\n\n" \o Join(Map(uniqueFiles, Item), "\n")
  IN  IF gitDiffContent # ""
      THEN Join(<<files, "\n## Git Changes Summary\n~~~\n" \o Trim(gitDiffContent)
                          \o "\n~~~">>, "\n")
      ELSE files

\* session-end.ts 129-140
FileChangesInput(uniqueFiles, gitDiffContent) ==
  [type |-> "refactor",
   summary |-> "Session edits: " \o ToString(Len(uniqueFiles)) \o " file(s) modified",
   content |-> ChangesContent(uniqueFiles, gitDiffContent),
   tool |-> "FileChanges",
   metadata |-> [files |-> uniqueFiles, fileCount |-> Len(uniqueFiles),
                 captureMethod |-> "git-diff-plus-recent", source |-> "opencode"]]

\* session-end.ts 146-156
FileEditInput(file) ==
  [type |-> "refactor",
   summary |-> "Modified " \o FileNameOf(file),
   content |-> "File edited: " \o file \o "\nThis file was modified during the session.",
   tool |-> "FileEdit",
   metadata |-> [files |-> <<file>>, fileName |-> FileNameOf(file), source |-> "opencode"]]

\* index.ts 79, 101, 121: sessionSummaryGenerated, read off the log: the
\* last session event of p that set it was a session end that went through.
sessionSummaryGenerated(p) ==
  LET marks == {i \in DOMAIN log :
                  /\ log[i].by = p
                  /\ \/ log[i].op = "session.created"
                     \/ log[i].op = "session.idle" /\ log[i].did = "done"}
  IN  \E i \in marks : log[i].op = "session.idle" /\ \A j \in marks : j <= i

\* index.ts 100-114: the flag is cleared; the size of the memory file is
\* only looked at.
SessionCreated(p) ==
  /\ alive[p] /\ pc[p] = "idle" /\ hook[p] = NoHook
  /\ budget > 0
  /\ budget' = budget - 1
  /\ log' = Append(log, EventEntry(p, "session.created", "cleared", Resolved("undefined")))
  /\ UNCHANGED <<now, horizon, damage, lock, alive, pc, call, waitStart, local, fnOutcome,
                 result, releases, rejected, faults, dedupVars, mindVars, env,
                 sessionFiles, recentObservations, mindInstance, hook>>

\* index.ts 117-120, session-end.ts 38: the Mind is asked for, which opens
\* it when the process has none.
SessionIdleOf(p, generated) ==
  /\ alive[p] /\ pc[p] = "idle" /\ hook[p] = NoHook
  /\ budget > 0
  /\ ~generated
  /\ budget' = budget - 1
  /\ IF mind[p].initialized
     THEN /\ hook' = [hook EXCEPT ![p] = [kind |-> "session.idle", stage |-> "capture"]]
          /\ UNCHANGED <<call, pc, waitStart, local, fnOutcome, result, releases>>
     ELSE /\ hook' = [hook EXCEPT ![p] = [kind |-> "session.idle", stage |-> "open"]]
          /\ Proceed(p, [kind |-> "open", path |-> MemoryPath])
  /\ UNCHANGED <<now, horizon, damage, lock, alive, rejected, faults, dedupVars, mindVars,
                 env, sessionFiles, recentObservations, mindInstance, log>>

\* index.ts 116-120, in a process that runs one handler at a time
SessionIdle(p) == SessionIdleOf(p, sessionSummaryGenerated(p))

\* index.ts 79, 101, 121: the flag of a process whose handlers overlap: one
\* variable of the plugin, set and cleared by whichever handler gets there.
SummaryGenerated ==
  LET marks == {i \in DOMAIN log :
                  \/ log[i].op = "session.created"
                  \/ log[i].op = "session.idle" /\ log[i].did = "done"}
  IN  \E i \in marks : log[i].op = "session.idle" /\ \A j \in marks : j <= i

\* index.ts 116-120: a session.idle given to the process while handlers of
\* earlier events may still be at an await; the flag is read as the handler
\* starts and set when handleSessionEnd has returned.
SessionIdleOverlapping(p) == SessionIdleOf(p, SummaryGenerated)

\* index.ts 121-125: the handler of the session end is over: when the work
\* went through, the flag is set and resetMind() called.
SessionOver(p, did, outcome) ==
  /\ hook' = [hook EXCEPT ![p] = NoHook]
  /\ log' = Append(log, EventEntry(p, "session.idle", did, outcome))
  /\ mindInstance' = IF did = "done" THEN [mindInstance EXCEPT !.current = 0]
                     ELSE mindInstance

\* session-end.ts 38-41, 60-140: getMind has returned the Mind or rejected;
\* with the Mind, the shell commands list the files, and the list, when it
\* is not empty, is remembered; the important files wait for their turn.
SessionCapture(p) ==
  /\ alive[p] /\ pc[p] = "idle"
  /\ hook[p].kind = "session.idle" /\ hook[p].stage \in {"open", "capture"}
  /\ IF ~mind[p].initialized
     THEN /\ SessionOver(p, "failed", Threw("open"))
          /\ UNCHANGED <<call, pc, waitStart, local, fnOutcome, result, releases, mind>>
     ELSE \E found \in FileLists :
            LET uniqueFiles == Unique(found.files)
                important(f) == IsImportant(FileNameOf(f))
            IN  IF uniqueFiles = <<>>
                THEN /\ Proceed(p, [kind |-> "context", path |-> MemoryPath])
                     /\ hook' = [hook EXCEPT ![p].stage = "context"]
                     /\ UNCHANGED <<mind, mindInstance, log>>
                ELSE /\ Proceed(p, [kind |-> "remember", path |-> MemoryPath,
                                    input |-> FileChangesInput(uniqueFiles, found.diff)])
                     /\ mind' = [mind EXCEPT ![p].writes = @ + 1]
                     /\ hook' = [hook EXCEPT ![p] =
                                   [kind |-> "session.idle", stage |-> "changes",
                                    pending |-> Filter(uniqueFiles, important)]]
                     /\ UNCHANGED <<mindInstance, log>>
  /\ UNCHANGED <<now, horizon, damage, lock, alive, rejected, budget, faults, dedupVars,
                 store, backups, env, sessionFiles, recentObservations>>

\* session-end.ts 142-164, 44: a remember that rejects ends the capture
\* of the files, and the error goes no further; after one that went
\* through, the next important file is remembered; the capture over, the
\* context is read.
SessionAfterChanges(p) ==
  /\ alive[p] /\ pc[p] = "returned" /\ call[p].kind = "remember"
  /\ hook[p].kind = "session.idle"
  /\ IF result[p].status = "resolved" /\ hook[p].pending # <<>>
     THEN /\ Proceed(p, [kind |-> "remember", path |-> MemoryPath,
                         input |-> FileEditInput(Head(hook[p].pending))])
          /\ mind' = [mind EXCEPT ![p].writes = @ + 1]
          /\ hook' = [hook EXCEPT ![p].pending = Tail(@)]
          /\ UNCHANGED rejected
     ELSE /\ Proceed(p, [kind |-> "context", path |-> MemoryPath])
          /\ hook' = [hook EXCEPT ![p] = [kind |-> "session.idle", stage |-> "context"]]
          /\ rejected' = IF result[p].status = "threw" THEN rejected + 1 ELSE rejected
          /\ UNCHANGED mind
  /\ UNCHANGED <<now, horizon, damage, lock, alive, budget, faults, dedupVars, store,
                 backups, env, sessionFiles, recentObservations, mindInstance, log>>

\* session-end.ts 44-54: the observations of the session are counted; with
\* enough of them the summary is saved, which reads the context once more
\* (mind.ts 353).
SessionAfterContext(p) ==
  /\ alive[p] /\ pc[p] = "returned" /\ call[p].kind = "context"
  /\ hook[p].kind = "session.idle" /\ hook[p].stage = "context"
  /\ IF result[p].status = "threw"
     THEN /\ Finished(p) /\ SessionOver(p, "failed", result[p])
          /\ UNCHANGED waitStart
     ELSE IF local[p].sessionObs >= MIN_OBSERVATIONS_FOR_SUMMARY
     THEN /\ Proceed(p, [kind |-> "context", path |-> MemoryPath])
          /\ hook' = [hook EXCEPT ![p].stage = "summary"]
          /\ UNCHANGED <<rejected, mindInstance, log>>
     ELSE /\ Finished(p) /\ SessionOver(p, "done", result[p])
          /\ UNCHANGED waitStart
  /\ UNCHANGED <<now, horizon, damage, lock, alive, budget, faults, dedupVars, mindVars,
                 env, sessionFiles, recentObservations>>

\* mind.ts 353-368, within the session end
SessionSummaryLock(p) ==
  /\ hook[p].kind = "session.idle" /\ hook[p].stage = "summary"
  /\ SummaryLock(p)

\* session-end.ts 52-54: saveSessionSummary has stored the summary, or has
\* rejected, at its write or before it.
SessionAfterSummary(p) ==
  /\ alive[p]
  /\ hook[p].kind = "session.idle" /\ hook[p].stage = "summary"
  /\ \/ /\ pc[p] = "returned" /\ call[p].kind = "summary"
        /\ Finished(p)
        /\ SessionOver(p, IF result[p].status = "resolved" THEN "done" ELSE "failed",
                       result[p])
     \/ /\ pc[p] = "idle"
        /\ SessionOver(p, "failed", Threw("getContext"))
        /\ UNCHANGED <<call, pc, local, fnOutcome, result, releases, rejected>>
  /\ UNCHANGED <<now, horizon, damage, lock, alive, waitStart, budget, faults, dedupVars,
                 mindVars, env, sessionFiles, recentObservations>>

(* --------------------------- the query tools -------------------------- *)

\* The tools of the plugin that read the memory.
QueryTools == {"mind_search", "mind_ask", "mind_stats", "mind_timeline"}

\* The word the queries of the model look for.
QueryWord == "content"

\* memvid.find(query, ...) and memvid.ask(question, ...): the frames whose
\* text holds the word
Find(frames, word) ==
  LET Hit(frame) == Includes(ToLowerCase(frame.text), word) IN Filter(frames, Hit)

\* Mutant: a search without results raises.
SearchText_Raising(results) ==
  IF Len(results) = 0 THEN Threw("empty")
  ELSE Resolved("1. " \o results[1].label)

\* part_003 35-46: mind_search
SearchText(results) ==
  IF Len(results) = 0 THEN Resolved("No memories found.")
  ELSE Resolved("1. " \o results[1].label)

\* mind.ts 287-288, part_003 66-71: mind_ask; the engine's answer is
\* empty when no frame holds the word
AskText(results) ==
  Resolved(Or(IF Len(results) = 0 THEN "" ELSE "Answer: " \o results[1].text,
              "No relevant memories found."))

\* part_003 125-136: mind_timeline
TimelineText(obs) ==
  IF Len(obs) = 0 THEN Resolved("No memories found.")
  ELSE Resolved("1. " \o obs[1].label)

\* part_003 91-106: mind_stats
StatsText(totalObservations) ==
  Resolved("Total Observations: " \o totalObservations)

\* What a query tool returns on a memory without frames.
Neutral(tool) ==
  CASE tool = "mind_search" -> "No memories found."
    [] tool = "mind_ask" -> "No relevant memories found."
    [] tool = "mind_timeline" -> "No memories found."
    [] tool = "mind_stats" -> "Total Observations: 0"

\* The call of Mind that the tool makes.
QueryCall(tool) ==
  IF tool = "mind_stats" THEN [kind |-> "stats", path |-> MemoryPath]
  ELSE [kind |-> "query", path |-> MemoryPath, tool |-> tool]

\* What the log keeps of a query tool that is over: whether the memory was
\* without frames, or missing, when the tool began, whether the call had
\* been cancelled, and what the host received.
QueryEntry(p, tool, empty, aborted, outcome) ==
  [op |-> tool, by |-> p, empty |-> empty, aborted |-> aborted, at |-> now,
   status |-> outcome.status, value |-> outcome.value]

\* part_003 29-34, 60-65, 84-89, 119-124 (index.ts 83-86): a call that was
\* cancelled returns at once; otherwise the tool asks for the Mind, which
\* opens it when the process has none, and calls it.
QueryBegin(p) ==
  /\ alive[p] /\ pc[p] = "idle" /\ hook[p] = NoHook
  /\ budget > 0
  /\ budget' = budget - 1
  /\ \E tool \in QueryTools, aborted \in BOOLEAN :
       IF aborted
       THEN /\ log' = Append(log, QueryEntry(p, tool, store.frames = <<>>, TRUE,
                                             Resolved("Operation cancelled")))
            /\ UNCHANGED <<call, pc, waitStart, local, fnOutcome, result, releases, hook>>
       ELSE /\ hook' = [hook EXCEPT ![p] =
                          [kind |-> "tool", tool |-> tool, empty |-> store.frames = <<>>,
                           stage |-> IF mind[p].initialized THEN "call" ELSE "open"]]
            /\ Proceed(p, IF mind[p].initialized THEN QueryCall(tool)
                          ELSE [kind |-> "open", path |-> MemoryPath])
            /\ UNCHANGED log
  /\ UNCHANGED <<now, horizon, damage, lock, alive, rejected, faults, dedupVars, mindVars,
                 env, sessionFiles, recentObservations, mindInstance>>

\* getMind has returned the Mind, and the tool calls it; or getMind has
\* rejected, and so does the tool.
QueryAfterOpen(p) ==
  /\ alive[p] /\ pc[p] = "idle"
  /\ hook[p].kind = "tool" /\ hook[p].stage = "open"
  /\ IF mind[p].initialized
     THEN /\ Proceed(p, QueryCall(hook[p].tool))
          /\ hook' = [hook EXCEPT ![p].stage = "call"]
          /\ UNCHANGED log
     ELSE /\ hook' = [hook EXCEPT ![p] = NoHook]
          /\ log' = Append(log, QueryEntry(p, hook[p].tool, hook[p].empty, FALSE,
                                           Threw("open")))
          /\ UNCHANGED <<call, pc, waitStart, local, fnOutcome, result, releases>>
  /\ UNCHANGED <<now, horizon, damage, lock, alive, rejected, budget, faults, dedupVars,
                 mindVars, env, sessionFiles, recentObservations, mindInstance>>

\* mind.ts 257-290, 295-340: under the lock the engine is asked through
\* the handle of the Mind; an error of the engine is the error of the call.
QueryRead(p) ==
  /\ alive[p] /\ pc[p] = "q_read"
  /\ \E answered \in Outcomes :
       IF answered
       THEN /\ fnOutcome' = [fnOutcome EXCEPT ![p] =
                 CASE call[p].tool = "mind_search" ->
                        SearchText(Find(store.frames, QueryWord))
                   [] call[p].tool = "mind_ask" -> AskText(Find(store.frames, QueryWord))
                   [] call[p].tool = "mind_timeline" -> TimelineText(store.frames)]
            /\ UNCHANGED faults
       ELSE /\ fnOutcome' = [fnOutcome EXCEPT ![p] = Threw("engine")]
            /\ faults' = faults + 1
  /\ pc' = [pc EXCEPT ![p] = "finally"]
  /\ UNCHANGED <<now, horizon, damage, lock, alive, call, waitStart, local, result,
                 releases, rejected, budget, dedupVars, pluginVars, mindVars>>

\* The tool returns what the call gave it, stats as a listing; an error
\* of the call is the error of the tool: the tools have no try block.
QueryEnd(p) ==
  /\ alive[p] /\ pc[p] = "returned" /\ call[p].kind \in {"query", "stats"}
  /\ hook[p].kind = "tool"
  /\ log' = Append(log, QueryEntry(p, hook[p].tool, hook[p].empty, FALSE,
               IF call[p].kind = "stats" /\ result[p].status = "resolved"
               THEN StatsText(result[p].value) ELSE result[p]))
  /\ hook' = [hook EXCEPT ![p] = NoHook]
  /\ Finished(p)
  /\ UNCHANGED <<now, horizon, damage, lock, alive, waitStart, budget, faults, dedupVars,
                 mindVars, env, sessionFiles, recentObservations, mindInstance>>

(* ===================== session files, step by step ==================== *)

\* session.test.ts 103-109: the fallback a caller gives, or none.
FallbackIds == {"fallback-123", ""}

\* dedup.ts 138: writeFile opens the file for writing, which empties it (or
\* makes it), before any of the text is in it. An open that fails leaves the
\* file as it was.
SessionTruncate(p) ==
  /\ alive[p] /\ pc[p] = "w_write"
  /\ \E opened \in Outcomes :
       IF opened
       THEN /\ sessionFiles' =
                 [sessionFiles EXCEPT ![getSessionPath(Directory, call[p].source)] =
                    [exists |-> TRUE, content |-> EmptyLine]]
            /\ pc' = [pc EXCEPT ![p] = "w_data"]
            /\ UNCHANGED <<fnOutcome, faults>>
       ELSE /\ fnOutcome' = [fnOutcome EXCEPT ![p] = Threw("writeFile")]
            /\ faults' = faults + 1
            /\ pc' = [pc EXCEPT ![p] = "finally"]
            /\ UNCHANGED sessionFiles
  /\ UNCHANGED <<now, horizon, damage, lock, alive, call, waitStart, local, result,
                 releases, rejected, budget, dedupVars, mindVars, env,
                 recentObservations, mindInstance, hook, log>>

\* dedup.ts 133-139: the text of the info is written into the opened file
\* and writeFile is over. A write that fails leaves the file empty.
SessionData(p) ==
  /\ alive[p] /\ pc[p] = "w_data"
  /\ LET c == call[p]
         info == [sessionId |-> c.sessionId, source |-> c.source, startTime |-> now]
     IN \E written \in Outcomes :
          IF written
          THEN /\ sessionFiles' =
                    [sessionFiles EXCEPT ![getSessionPath(Directory, c.source)] =
                       [exists |-> TRUE, content |-> Stringify(info)]]
               /\ log' = Append(log, [op |-> "writeSessionInfo", source |-> c.source,
                                      sessionId |-> c.sessionId])
               /\ fnOutcome' = [fnOutcome EXCEPT ![p] = Resolved("undefined")]
               /\ UNCHANGED faults
          ELSE /\ fnOutcome' = [fnOutcome EXCEPT ![p] = Threw("writeFile")]
               /\ faults' = faults + 1
               /\ UNCHANGED <<sessionFiles, log>>
  /\ pc' = [pc EXCEPT ![p] = "finally"]
  /\ UNCHANGED <<now, horizon, damage, lock, alive, call, waitStart, local, result,
                 releases, rejected, budget, dedupVars, mindVars, env,
                 recentObservations, mindInstance, hook>>

\* dedup.ts 175: an id made of the source and the time
GeneratedSessionId(source) == source \o "-" \o ToString(now) \o "-random"

\* dedup.ts 163-176: getSessionId in a process that detects the source; the
\* file is read without a lock.
GetSessionId(p) ==
  /\ alive[p] /\ pc[p] = "idle"
  /\ budget > 0
  /\ budget' = budget - 1
  /\ \E source \in SessionSources, fallbackId \in FallbackIds :
       /\ call' = [call EXCEPT ![p] =
                     [kind |-> "getSessionId", source |-> source,
                      fallbackId |-> fallbackId, at |-> Len(log)]]
       /\ result' = [result EXCEPT ![p] =
                       Resolved(getSessionId(sessionFiles, source,
                                  IF fallbackId # "" THEN fallbackId
                                  ELSE GeneratedSessionId(source)))]
  /\ pc' = [pc EXCEPT ![p] = "returned"]
  /\ UNCHANGED <<now, horizon, damage, lock, alive, waitStart, local, fnOutcome,
                 releases, rejected, faults, dedupVars, mindVars, pluginVars>>

(* ------------------ the cached hook, await by await ------------------- *)

\* The cache of the process: tool-capture.ts 24 is one Map of the module,
\* shared by every handler that runs in the process.
ProcessCache == recentObservations[1]

\* What the log keeps of an observation the cached hook stored.
StoredEntry(p, key) == [op |-> "observation", by |-> p, key |-> key, at |-> now]

\* tool-capture.ts 84-126: a handler starts and runs, without a break, up
\* to await getMind(): it returns for a tool that is not observed, a key
\* seen less than the window ago, or an output to skip.
CaptureCheck(p) ==
  /\ alive[p] /\ hook[p] = NoHook
  /\ budget > 0
  /\ budget' = budget - 1
  /\ \E tool \in {"Read", "TodoWrite"}, callID \in {"1", "2"}, output \in CacheOutputs :
       LET toolName == ToLowerCase(tool)
           key == getObservationKey(toolName, callID)
       IN  IF \/ toolName \notin OBSERVED_TOOLS
              \/ isDuplicate(ProcessCache, key, now)
              \/ Skipped(toolName, output.output)
           THEN UNCHANGED hook
           ELSE hook' = [hook EXCEPT ![p] =
                           [kind |-> "tool.execute.after", stage |-> "remember",
                            toolName |-> toolName, key |-> key, output |-> output]]
  /\ UNCHANGED <<now, horizon, damage, lock, alive, pc, call, waitStart, local, fnOutcome,
                 result, releases, rejected, faults, dedupVars, mindVars, env,
                 sessionFiles, recentObservations, mindInstance, log>>

\* tool-capture.ts 126-139: the Mind is there and remember stores the
\* observation; a remember that fails rejects the handler.
CaptureStore(p) ==
  /\ alive[p] /\ hook[p].kind = "tool.execute.after" /\ hook[p].stage = "remember"
  /\ \E stored \in Outcomes :
       IF stored
       THEN /\ store' = Stored(store, p,
                 RememberRecord(CaptureInput(hook[p].toolName, hook[p].output, TRUE,
                                             NoMetadata),
                                MindSessionId(1)))
            /\ log' = Append(log, StoredEntry(p, hook[p].key))
            /\ hook' = [hook EXCEPT ![p].stage = "mark"]
            /\ UNCHANGED <<faults, rejected>>
       ELSE /\ faults' = faults + 1
            /\ rejected' = rejected + 1
            /\ hook' = [hook EXCEPT ![p] = NoHook]
            /\ UNCHANGED <<store, log>>
  /\ UNCHANGED <<now, horizon, damage, lock, alive, pc, call, waitStart, local, fnOutcome,
                 result, releases, budget, dedupVars, backups, mind, env, sessionFiles,
                 recentObservations, mindInstance>>

\* tool-capture.ts 141: after the await of remember the key is marked and
\* the handler is over.
CaptureMark(p) ==
  /\ alive[p] /\ hook[p].kind = "tool.execute.after" /\ hook[p].stage = "mark"
  /\ recentObservations' =
       [recentObservations EXCEPT ![1] = markObserved(@, hook[p].key, now)]
  /\ hook' = [hook EXCEPT ![p] = NoHook]
  /\ UNCHANGED <<now, horizon, damage, lock, alive, pc, call, waitStart, local, fnOutcome,
                 result, releases, rejected, budget, faults, dedupVars, mindVars, env,
                 sessionFiles, mindInstance, log>>

(* -------------------- getMind for several directories ----------------- *)

\* index.ts 75-86: every plugin built in the process calls getMind with
\* the directory it was built for.
OtherDirectory == "/other"
Directories == {Directory, OtherDirectory}

\* What the log keeps of a getMind(directory) that is over: the directory
\* asked for, the number of the Mind returned (0 when it rejected), and
\* whether the call opened it.
GetMindEntry(p, directory, value, viaOpen) ==
  [op |-> "getMind", task |-> p, directory |-> directory, value |-> value,
   opened |-> viaOpen]

\* mind.ts 472-476, up to the await: getMind(directory) in a process that
\* has plugins for two directories.  A call that finds the singleton set
\* returns it, whatever the directory; one that finds it empty begins
\* Mind.open(directory).
GetMindFor(p) ==
  /\ alive[p] /\ pc[p] = "idle" /\ hook[p] = NoHook
  /\ budget > 0
  /\ budget' = budget - 1
  /\ \E directory \in Directories :
       IF ~Vacant(p)
       THEN /\ log' = Append(log, GetMindEntry(p, directory, mindInstance.current, FALSE))
            /\ UNCHANGED hook
       ELSE /\ hook' = [hook EXCEPT ![p] = [kind |-> "getMind", directory |-> directory]]
            /\ UNCHANGED log
  /\ UNCHANGED <<now, horizon, damage, lock, alive, pc, call, waitStart, local, fnOutcome,
                 result, releases, rejected, faults, dedupVars, mindVars, env,
                 sessionFiles, recentObservations, mindInstance>>

\* mind.ts 474-476, 110-180: Mind.open(directory) is over: it has made the
\* memory file of the directory when there was none, and the Mind it built
\* on the directory is assigned to the singleton and returned; an error of
\* open is the error of getMind.
GetMindAssign(p) ==
  /\ alive[p] /\ hook[p].kind = "getMind"
  /\ hook' = [hook EXCEPT ![p] = NoHook]
  /\ \E opened \in Outcomes :
       IF opened
       THEN /\ mindInstance' = [current |-> mindInstance.opened + 1,
                                opened |-> mindInstance.opened + 1]
            /\ store' = IF hook[p].directory = Directory /\ ~store.exists
                        THEN Created ELSE store
            /\ log' = Append(log, GetMindEntry(p, hook[p].directory,
                                               mindInstance.opened + 1, TRUE))
            /\ UNCHANGED faults
       ELSE /\ faults' = faults + 1
            /\ log' = Append(log, GetMindEntry(p, hook[p].directory, 0, TRUE))
            /\ UNCHANGED <<mindInstance, store>>
  /\ UNCHANGED <<now, horizon, damage, lock, alive, pc, call, waitStart, local, fnOutcome,
                 result, releases, rejected, budget, dedupVars, backups, mind, env,
                 sessionFiles, recentObservations>>

(* ========================= the environment ============================ *)

\* Time passes.  proper-lockfile keeps the lock of a live holder fresh (it
\* touches the lock every stale/2 ms); the lock of a crashed holder ages.
Tick ==
  /\ now + TickMs <= horizon
  /\ now' = now + TickMs
  /\ lock' = [q \in Paths |->
                IF lock[q].held /\ alive[lock[q].owner]
                THEN [lock[q] EXCEPT !.mtime = now'] ELSE lock[q]]
  /\ UNCHANGED <<horizon, damage, alive, pc, call, waitStart, local, fnOutcome, result,
                 releases, rejected, budget, faults, dedupVars, pluginVars, mindVars>>

\* The memory file is damaged or outgrows the limit while nobody works on
\* it under the lock: the
\* engine will report corruption on it, or another error, or it is larger
\* than the limit.  (Not within the millisecond of a backup.)
Damage ==
  /\ damage < MaxDamage
  /\ store.exists /\ ~lock[MemoryPath].held
  /\ \A b \in backups : b.time < now
  /\ damage' = damage + 1
  /\ \E s \in {[store EXCEPT !.error = "Deserialization error: UnexpectedVariant"],
               [store EXCEPT !.error = "EACCES: permission denied"],
               [store EXCEPT !.sizeMB = MAX_FILE_SIZE_MB + 1]} :
       store' = s
  /\ UNCHANGED <<now, horizon, lock, alive, pc, call, waitStart, local, fnOutcome,
                 result, releases, rejected, budget, faults, dedupVars, pluginVars, backups, mind>>

\* A process dies while it holds a lock, and the lock stays behind.  (A
\* process that dies elsewhere leaves nothing behind: it just stops.)
Crash(p) ==
  /\ alive[p] /\ pc[p] \notin {"idle", "lock", "returned", "o_prune"}
  /\ faults < MaxFaults
  /\ faults' = faults + 1
  /\ alive' = [alive EXCEPT ![p] = FALSE]
  /\ UNCHANGED <<now, horizon, damage, lock, pc, call, waitStart, local, fnOutcome, result,
                 releases, rejected, budget, dedupVars, pluginVars, mindVars>>

(* ========================== specifications ============================ *)

\* Every process is idle, no lock is held, nothing has failed.
Idle ==
  /\ now = 0
  /\ lock = [q \in Paths |-> FreeLock]
  /\ alive = [p \in Procs |-> TRUE]
  /\ pc = [p \in Procs |-> "idle"]
  /\ call = [p \in Procs |-> NoCall]
  /\ waitStart = [p \in Procs |-> 0]
  /\ local = [p \in Procs |-> NoLocal]
  /\ fnOutcome = [p \in Procs |-> NoOutcome]
  /\ result = [p \in Procs |-> NoOutcome]
  /\ releases = [p \in Procs |-> 0]
  /\ rejected = 0
  /\ damage = 0
  /\ mind = [p \in Procs |-> NoMind]

\* The same, with the plugin layer at rest.
Quiet == Idle /\ PluginQuiet

\* The directory is new, or one check was made in it before, at time 0:
\* the log that check left and the record of it.
EarlierLog ==
  FileOf(WriteLines(Appended(<<>>, 0, Hash(BaseArgs[1], BaseArgs[2], BaseArgs[3]),
                             BaseArgs[1])))

EarlierChecks ==
  <<[source |-> BaseArgs[1], toolName |-> BaseArgs[2], toolInput |-> BaseArgs[3],
     entered |-> 0, now |-> 0, outcome |-> Resolved("false")]>>

\* Processes checking for duplicates in one directory.
Init ==
  /\ Quiet
  /\ horizon = MaxTicks * TickMs
  /\ budget = MaxCalls
  /\ faults = 0
  /\ \/ dedupFile = NoFile /\ checks = <<>>
     \/ dedupFile = EarlierLog /\ checks = EarlierChecks
  /\ backups = {}
  /\ store = NoStore

Next ==
  \/ \E p \in Procs : DedupBegin(p)
  \/ \E p \in Procs : Acquire(p)
  \/ \E p \in Procs : DedupRead(p)
  \/ \E p \in Procs : DedupCheck(p)
  \/ \E p \in Procs : Release(p)
  \/ \E p \in Procs : Return(p)
  \/ \E p \in Procs : Crash(p)
  \/ Tick

Spec == Init /\ [][Next]_vars

\* The dedup checks with the retry timer of lockfile.lock at work: a waiting
\* caller whose next attempt is due makes it (lock.ts 17-21, 44).
Fairness == \A p \in Procs : WF_vars(Acquire(p))

SpecLive == Init /\ [][Next]_vars /\ Fairness

\* A log that holds, around the entry of an earlier check or without one,
\* lines that are no entries.
CorruptLogs ==
  {<<GarbageLine, EarlierLog.lines[1], EmptyLine, NullLine>>,
   <<NoTimestampLine(EarlierLog.lines[1].value.hash), GarbageLine>>}

\* Processes checking for duplicates in a directory whose log is damaged.
InitCorrupt ==
  /\ Quiet
  /\ horizon = MaxTicks * TickMs
  /\ budget = MaxCalls
  /\ faults = 0
  /\ dedupFile \in {FileOf(l) : l \in CorruptLogs}
  /\ checks = IF dedupFile.lines[2] = EarlierLog.lines[1] THEN EarlierChecks ELSE <<>>
  /\ backups = {}
  /\ store = NoStore

SpecCorrupt == InitCorrupt /\ [][Next]_vars

\* The memory files a process can find: none, a sound one, one above the
\* size limit, one the engine reports as corrupt, one it cannot read.
FoundStores ==
  {NoStore,
   [Created EXCEPT !.sizeMB = MAX_FILE_SIZE_MB],
   [Created EXCEPT !.sizeMB = MAX_FILE_SIZE_MB + 1],
   [Created EXCEPT !.error = "Deserialization error: UnexpectedVariant"],
   [Created EXCEPT !.error = "EACCES: permission denied"]}

\* Processes using the memory of one directory through Mind.
InitMind ==
  /\ Quiet
  /\ horizon = MaxTicks * TickMs
  /\ budget = MindCalls
  /\ faults = 0
  /\ dedupFile = NoFile /\ checks = <<>>
  /\ backups = {}
  /\ store \in FoundStores

NextMind ==
  \/ \E p \in Procs : OpenBegin(p)
  \/ \E p \in Procs : RememberBegin(p)
  \/ \E p \in Procs : SummaryBegin(p)
  \/ \E p \in Procs : StatsBegin(p)
  \/ \E p \in Procs : Acquire(p)
  \/ \E p \in Procs : OpenCheck(p)
  \/ \E p \in Procs : OpenUse(p)
  \/ \E p \in Procs : OpenCreate(p)
  \/ \E p \in Procs : OpenFinish(p)
  \/ \E p \in Procs : OpenPrune(p)
  \/ \E p \in Procs : RememberUse(p)
  \/ \E p \in Procs : RememberPut(p)
  \/ \E p \in Procs : StatsRead(p)
  \/ \E p \in Procs : Release(p)
  \/ \E p \in Procs : Return(p)
  \/ \E p \in Procs : ContextRead(p)
  \/ \E p \in Procs : SummaryLock(p)
  \/ \E p \in Procs : SummaryUse(p)
  \/ \E p \in Procs : SummaryPut(p)
  \/ \E p \in Procs : Crash(p)
  \/ Tick

SpecMind == InitMind /\ [][NextMind]_vars

\* The backups that earlier runs left, with times before the start of
\* this run (time 0).
EarlierBackups(n) == {[time |-> 0 - k * TickMs, file |-> Created] : k \in 1..n}

\* Processes opening the memory of a directory whose memory file may be
\* missing, too large or damaged, and may get damaged again.
InitRecover ==
  /\ Quiet
  /\ horizon = MaxTicks * TickMs
  /\ budget = MaxCalls
  /\ faults = 0
  /\ dedupFile = NoFile /\ checks = <<>>
  /\ store \in FoundStores
  /\ backups \in {EarlierBackups(n) : n \in {0, BackupKeepCount, BackupKeepCount + 1}}

NextRecover ==
  \/ \E p \in Procs : OpenBegin(p)
  \/ \E p \in Procs : Acquire(p)
  \/ \E p \in Procs : OpenCheck(p)
  \/ \E p \in Procs : OpenUse(p)
  \/ \E p \in Procs : OpenCreate(p)
  \/ \E p \in Procs : Release(p)
  \/ \E p \in Procs : OpenFinish(p)
  \/ \E p \in Procs : OpenPrune(p)
  \/ \E p \in Procs : Crash(p)
  \/ Damage
  \/ Tick

SpecRecover == InitRecover /\ [][NextRecover]_vars

\* mind.test.ts 139-157: every process is a writer that opens the memory of
\* a directory that has none and remembers one observation; when all of
\* them are done, one more Mind is opened and asked for its stats.  Nothing
\* crashes, no file operation fails, and the run is over within the timeout
\* of the test.
InitWriters ==
  /\ Quiet
  /\ horizon = TestTimeoutMs
  /\ budget = 2 * NumProcs + 2
  /\ faults = MaxFaults
  /\ dedupFile = NoFile /\ checks = <<>>
  /\ backups = {}
  /\ store = NoStore

WriterOpen(p) ==
  /\ budget > 2 /\ ~mind[p].initialized
  /\ OpenBegin(p)

WriterRemember(p) ==
  /\ budget > 2 /\ mind[p].writes = 0
  /\ RememberBegin(p)

WritersDone == \A p \in Procs : pc[p] = "idle" /\ mind[p].writes = 1

VerifierOpen ==
  /\ budget = 2 /\ WritersDone
  /\ OpenBegin(1)

VerifierStats ==
  /\ budget = 1
  /\ StatsBegin(1)

NextWriters ==
  \/ \E p \in Procs : WriterOpen(p)
  \/ \E p \in Procs : WriterRemember(p)
  \/ VerifierOpen
  \/ VerifierStats
  \/ \E p \in Procs : Acquire(p)
  \/ \E p \in Procs : OpenCheck(p)
  \/ \E p \in Procs : OpenUse(p)
  \/ \E p \in Procs : OpenCreate(p)
  \/ \E p \in Procs : OpenFinish(p)
  \/ \E p \in Procs : OpenPrune(p)
  \/ \E p \in Procs : RememberUse(p)
  \/ \E p \in Procs : RememberPut(p)
  \/ \E p \in Procs : StatsRead(p)
  \/ \E p \in Procs : Release(p)
  \/ \E p \in Procs : Return(p)
  \/ Tick

SpecWriters == InitWriters /\ [][NextWriters]_vars

(* ---------------------- the compression of outputs -------------------- *)
\* The tool names the plugin is called with, in the spellings of the host,
\* and one that has no strategy of its own.
CompressTools ==
  {"read", "Read", "bash", "grep", "glob", "edit", "Write", "update", "task"}

CompressInputs ==
  {Undefined, [file |-> "test.ts"], [file_path |-> "/src/utils/test.ts"],
   [command |-> "npm test"], [pattern |-> "const x"]}

\* compression.test.ts: fileContent
FileContent ==
  Join(<<"", "import { something } from \"./module\"",
         "import { other } from \"./other\"", "",
         "export function main() {", "  return \"hello\"", "}", "",
         "export class MyClass {", "  method() {}", "}", "",
         "// TODO: Fix this", "// FIXME: This is broken",
         Repeat("x", 4000), "">>, "\n")

\* compression.test.ts: bashOutput
BashOutput ==
  Join(<<"", "Running command...", "Error: something went wrong", "Success!",
         Repeat("x", 3000), "">>, "\n")

\* compression.test.ts: grepOutput
GrepOutput ==
  Join(<<"", "file1.ts:10: const x = 1", "file2.ts:20: const x = 2",
         "file3.ts:30: const x = 3", Repeat("x", 3000), "">>, "\n")

\* compression.test.ts: globOutput
GlobOutput ==
  Join([i \in 1..100 |-> "src/file" \o ToString(i - 1) \o ".ts"], "\n")
    \o Repeat("\n", 3000)

\* a listing of many lines, each of a hundred characters
LongListing(n) == Join([i \in 1..n |-> Repeat("y", 100)], "\n")

\* The outputs: short ones, ones just below, at and above the threshold,
\* the outputs of the tests and listings of many lines.
CompressOutputs ==
  {"", "Small output", Repeat("x", COMPRESSION_THRESHOLD - 1),
   Repeat("x", COMPRESSION_THRESHOLD), Repeat("x", 5000),
   FileContent, BashOutput, GrepOutput, GlobOutput, LongListing(25), LongListing(40)}

CompressCalls ==
  {[kind |-> "compress", toolName |-> t, toolInput |-> i, output |-> o, autoCompress |-> a] :
     t \in CompressTools, i \in CompressInputs, o \in CompressOutputs, a \in BOOLEAN}

\* One process is about to hand a tool output to compressToolOutput.
InitCompress ==
  /\ now = 0
  /\ horizon = 0
  /\ lock = [q \in Paths |-> FreeLock]
  /\ alive = [p \in Procs |-> TRUE]
  /\ pc = [p \in Procs |-> "idle"]
  /\ \E q \in Procs, c \in CompressCalls :
       call = [p \in Procs |-> IF p = q THEN c ELSE NoCall]
  /\ waitStart = [p \in Procs |-> 0]
  /\ local = [p \in Procs |-> NoLocal]
  /\ fnOutcome = [p \in Procs |-> NoOutcome]
  /\ result = [p \in Procs |-> NoOutcome]
  /\ releases = [p \in Procs |-> 0]
  /\ rejected = 0
  /\ damage = 0
  /\ mind = [p \in Procs |-> NoMind]
  /\ PluginQuiet
  /\ budget = 0
  /\ faults = 0
  /\ dedupFile = NoFile /\ checks = <<>>
  /\ backups = {}
  /\ store = NoStore

\* compression.ts 14-57: the call returns its result.
Compress(p) ==
  /\ alive[p] /\ pc[p] = "idle" /\ call[p].kind = "compress"
  /\ result' = [result EXCEPT ![p] =
                  Resolved(compressToolOutput(call[p].toolName, call[p].toolInput,
                                              call[p].output, call[p].autoCompress))]
  /\ pc' = [pc EXCEPT ![p] = "returned"]
  /\ UNCHANGED <<now, horizon, damage, lock, alive, call, waitStart, local, fnOutcome,
                 releases, rejected, budget, faults, dedupVars, pluginVars, mindVars>>

NextCompress == \E p \in Procs : Compress(p)

SpecCompress == InitCompress /\ [][NextCompress]_vars

\* The environments a process is started in: each of the three variables
\* is not set, set to the empty string, or set to a value.
Envs ==
  [OPENCODE_SESSION_ID : {Unset, Set(""), Set("test-session")},
   OPENCODE_DIR : {Unset, Set(""), Set("/test/dir")},
   CLAUDE_PROJECT_DIR : {Unset, Set(""), Set("/test/project")}]

\* Processes that ask which tool they run under.
InitDetect ==
  /\ Idle
  /\ horizon = 0
  /\ budget = NumProcs
  /\ faults = 0
  /\ dedupFile = NoFile /\ checks = <<>>
  /\ backups = {}
  /\ store = NoStore
  /\ env \in [Procs -> Envs]
  /\ sessionFiles = [f \in SessionPaths |-> NoSessionFile]
  /\ recentObservations = [p \in Procs |-> {}]
  /\ mindInstance = NoInstance
  /\ hook = [p \in Procs |-> NoHook]
  /\ log = <<>>

\* dedup.ts 110-118: the call returns the source.
Detect(p) ==
  /\ alive[p] /\ pc[p] = "idle" /\ budget > 0
  /\ budget' = budget - 1
  /\ call' = [call EXCEPT ![p] = [kind |-> "detectSource"]]
  /\ result' = [result EXCEPT ![p] = Resolved(detectSource(env[p]))]
  /\ pc' = [pc EXCEPT ![p] = "returned"]
  /\ UNCHANGED <<now, horizon, damage, lock, alive, waitStart, local, fnOutcome,
                 releases, rejected, faults, dedupVars, mindVars, pluginVars>>

NextDetect == \E p \in Procs : Detect(p)

SpecDetect == InitDetect /\ [][NextDetect]_vars

\* Processes writing and reading the session files of a new directory.
InitSession ==
  /\ Quiet
  /\ horizon = 0
  /\ budget = SessionCalls
  /\ faults = 0
  /\ dedupFile = NoFile /\ checks = <<>>
  /\ backups = {}
  /\ store = NoStore

NextSession ==
  \/ \E p \in Procs : WriteSessionBegin(p)
  \/ \E p \in Procs : Acquire(p)
  \/ \E p \in Procs : SessionWrite(p)
  \/ \E p \in Procs : Release(p)
  \/ \E p \in Procs : ReadSessionInfo(p)
  \/ \E p \in Procs : Return(p)

SpecSession == InitSession /\ [][NextSession]_vars

\* mind.test.ts 159-183: observations given with a source, valid or not, or
\* without one
SourceInputs ==
  {[TestInput EXCEPT !.metadata = m] :
     m \in {NoMetadata,
            [source |-> "opencode", sessionId |-> "oc-session-1"],
            [source |-> "claude-code", sessionId |-> "cc-session-1"],
            [source |-> "cursor"], [source |-> "unknown"], [source |-> ""]}}

RememberSource(p) == \E input \in SourceInputs : Remember(p, input)

\* Processes that open the memory of a new directory and write
\* observations and session summaries to it.
InitSource ==
  /\ Quiet
  /\ horizon = 0
  /\ budget = MindCalls
  /\ faults = 0
  /\ dedupFile = NoFile /\ checks = <<>>
  /\ backups = {}
  /\ store = NoStore

NextSource ==
  \/ \E p \in Procs : OpenBegin(p)
  \/ \E p \in Procs : RememberSource(p)
  \/ \E p \in Procs : SummaryBegin(p)
  \/ \E p \in Procs : Acquire(p)
  \/ \E p \in Procs : OpenCheck(p)
  \/ \E p \in Procs : OpenUse(p)
  \/ \E p \in Procs : OpenCreate(p)
  \/ \E p \in Procs : OpenFinish(p)
  \/ \E p \in Procs : OpenPrune(p)
  \/ \E p \in Procs : RememberUse(p)
  \/ \E p \in Procs : RememberPut(p)
  \/ \E p \in Procs : ContextRead(p)
  \/ \E p \in Procs : SummaryLock(p)
  \/ \E p \in Procs : SummaryUse(p)
  \/ \E p \in Procs : SummaryPut(p)
  \/ \E p \in Procs : Release(p)
  \/ \E p \in Procs : Return(p)

SpecSource == InitSource /\ [][NextSource]_vars

\* The first process has the tools; its hook stores what they return, call
\* after call, in a new directory.
InitCache ==
  /\ Idle
  /\ horizon = MaxPauses * PauseMs
  /\ budget = 0
  /\ faults = 0
  /\ dedupFile = NoFile /\ checks = <<>>
  /\ backups = {}
  /\ store = NoStore
  /\ env = [p \in Procs |-> NoEnv]
  /\ sessionFiles = [f \in SessionPaths |-> NoSessionFile]
  /\ recentObservations = [p \in Procs |-> {}]
  /\ mindInstance = NoInstance
  /\ hook = [p \in Procs |->
               IF p = 1 THEN [kind |-> "tool.execute.after", calls |-> 0] ELSE NoHook]
  /\ log = <<>>

NextCache ==
  \/ \E p \in Procs : CaptureInProcess(p)
  \/ Pause

SpecCache == InitCache /\ [][NextCache]_vars

\* mind.test.ts 125: the one Mind of the run is opened, once, by process 1.
CountOpen(p) == p = 1 /\ ~mind[p].initialized /\ OpenBegin(p)

\* One Mind on a directory without a memory file: it is opened, then
\* remembers and asks for the statistics, one call after the other.
InitCount ==
  /\ Quiet
  /\ horizon = MaxTicks * TickMs
  /\ budget = CountCalls
  /\ faults = 0
  /\ dedupFile = NoFile /\ checks = <<>>
  /\ backups = {}
  /\ store = NoStore

NextCount ==
  \/ \E p \in Procs : CountOpen(p)
  \/ \E p \in Procs : OpenCheck(p)
  \/ \E p \in Procs : OpenCreate(p)
  \/ \E p \in Procs : OpenFinish(p)
  \/ \E p \in Procs : OpenPrune(p)
  \/ \E p \in Procs : RememberBegin(p)
  \/ \E p \in Procs : RememberUse(p)
  \/ \E p \in Procs : RememberPut(p)
  \/ \E p \in Procs : StatsBegin(p)
  \/ \E p \in Procs : StatsRead(p)
  \/ \E p \in Procs : Acquire(p)
  \/ \E p \in Procs : Release(p)
  \/ \E p \in Procs : Return(p)
  \/ Tick

SpecCount == InitCount /\ [][NextCount]_vars

\* The tasks of one Node process calling getMind and resetMind on a
\* directory that has a memory file or has none.
InitSingleton ==
  /\ Quiet
  /\ horizon = MaxTicks * TickMs
  /\ budget = MindCalls
  /\ faults = 0
  /\ dedupFile = NoFile /\ checks = <<>>
  /\ backups = {}
  /\ store \in {NoStore, Created}

NextSingleton ==
  \/ \E p \in Procs : GetMindBegin(p)
  \/ \E p \in Procs : GetMindReturn(p)
  \/ ResetMind
  \/ \E p \in Procs : Acquire(p)
  \/ \E p \in Procs : OpenCheck(p)
  \/ \E p \in Procs : OpenUse(p)
  \/ \E p \in Procs : OpenCreate(p)
  \/ \E p \in Procs : OpenFinish(p)
  \/ \E p \in Procs : OpenPrune(p)
  \/ \E p \in Procs : Release(p)
  \/ Tick

SpecSingleton == InitSingleton /\ [][NextSingleton]_vars

\* Processes that run the plugin on one directory: the host calls their
\* handlers after tools and at session events, one handler at a time in
\* each process.
InitPlugin ==
  /\ Quiet
  /\ horizon = PluginTicks * TickMs
  /\ budget = PluginCalls
  /\ faults = 0
  /\ dedupFile = NoFile /\ checks = <<>>
  /\ backups = {}
  /\ store = NoStore

NextPlugin ==
  \/ \E p \in Procs : ToolAfter(p)
  \/ \E p \in Procs : ToolAfterDedup(p)
  \/ \E p \in Procs : ToolAfterOpen(p)
  \/ \E p \in Procs : ToolAfterRemember(p)
  \/ \E p \in Procs : SessionCreated(p)
  \/ \E p \in Procs : SessionIdle(p)
  \/ \E p \in Procs : SessionCapture(p)
  \/ \E p \in Procs : SessionAfterChanges(p)
  \/ \E p \in Procs : SessionAfterContext(p)
  \/ \E p \in Procs : SessionSummaryLock(p)
  \/ \E p \in Procs : SessionAfterSummary(p)
  \/ \E p \in Procs : Acquire(p)
  \/ \E p \in Procs : DedupRead(p)
  \/ \E p \in Procs : DedupCheck(p)
  \/ \E p \in Procs : OpenCheck(p)
  \/ \E p \in Procs : OpenUse(p)
  \/ \E p \in Procs : OpenCreate(p)
  \/ \E p \in Procs : OpenFinish(p)
  \/ \E p \in Procs : OpenPrune(p)
  \/ \E p \in Procs : RememberUse(p)
  \/ \E p \in Procs : RememberPut(p)
  \/ \E p \in Procs : ContextRead(p)
  \/ \E p \in Procs : SummaryUse(p)
  \/ \E p \in Procs : SummaryPut(p)
  \/ \E p \in Procs : Release(p)
  \/ Tick

SpecPlugin == InitPlugin /\ [][NextPlugin]_vars

\* A memory that holds the observation of the test.
Remembered == Stored(Created, 1, RememberRecord(TestInput, MindSessionId(1)))

\* Processes calling the query tools on a directory whose memory is
\* missing, or without frames, or holds an observation; nobody writes.
InitQuery ==
  /\ Quiet
  /\ horizon = MaxTicks * TickMs
  /\ budget = QueryCalls
  /\ faults = 0
  /\ dedupFile = NoFile /\ checks = <<>>
  /\ backups = {}
  /\ store \in {NoStore, Created, Remembered}

NextQuery ==
  \/ \E p \in Procs : QueryBegin(p)
  \/ \E p \in Procs : QueryAfterOpen(p)
  \/ \E p \in Procs : QueryRead(p)
  \/ \E p \in Procs : StatsRead(p)
  \/ \E p \in Procs : QueryEnd(p)
  \/ \E p \in Procs : Acquire(p)
  \/ \E p \in Procs : OpenCheck(p)
  \/ \E p \in Procs : OpenUse(p)
  \/ \E p \in Procs : OpenCreate(p)
  \/ \E p \in Procs : OpenFinish(p)
  \/ \E p \in Procs : OpenPrune(p)
  \/ \E p \in Procs : Release(p)
  \/ Tick

SpecQuery == InitQuery /\ [][NextQuery]_vars

\* Processes whose hosts hand every kind of tool call to the hook, on one
\* directory.
InitCapture ==
  /\ Quiet
  /\ horizon = PluginTicks * TickMs
  /\ budget = PluginCalls
  /\ faults = 0
  /\ dedupFile = NoFile /\ checks = <<>>
  /\ backups = {}
  /\ store = NoStore

NextCapture ==
  \/ \E p \in Procs : ToolAfterAny(p)
  \/ \E p \in Procs : ToolAfterDedup(p)
  \/ \E p \in Procs : ToolAfterOpen(p)
  \/ \E p \in Procs : ToolAfterRemember(p)
  \/ \E p \in Procs : Acquire(p)
  \/ \E p \in Procs : DedupRead(p)
  \/ \E p \in Procs : DedupCheck(p)
  \/ \E p \in Procs : OpenCheck(p)
  \/ \E p \in Procs : OpenUse(p)
  \/ \E p \in Procs : OpenCreate(p)
  \/ \E p \in Procs : OpenFinish(p)
  \/ \E p \in Procs : OpenPrune(p)
  \/ \E p \in Procs : RememberUse(p)
  \/ \E p \in Procs : RememberPut(p)
  \/ \E p \in Procs : Release(p)
  \/ Tick

SpecCapture == InitCapture /\ [][NextCapture]_vars

\* Processes that use everything that takes a lock through withMindLock:
\* the dedup check, writeSessionInfo, and the calls of Mind.
InitLocks ==
  /\ Quiet
  /\ horizon = LockTicks * TickMs
  /\ budget = LockCalls
  /\ faults = 0
  /\ dedupFile = NoFile /\ checks = <<>>
  /\ backups = {}
  /\ store = NoStore

NextLocks ==
  \/ \E p \in Procs : DedupBegin(p)
  \/ \E p \in Procs : WriteSessionBegin(p)
  \/ \E p \in Procs : OpenBegin(p)
  \/ \E p \in Procs : RememberBegin(p)
  \/ \E p \in Procs : SummaryBegin(p)
  \/ \E p \in Procs : StatsBegin(p)
  \/ \E p \in Procs : Acquire(p)
  \/ \E p \in Procs : DedupRead(p)
  \/ \E p \in Procs : DedupCheck(p)
  \/ \E p \in Procs : SessionWrite(p)
  \/ \E p \in Procs : OpenCheck(p)
  \/ \E p \in Procs : OpenUse(p)
  \/ \E p \in Procs : OpenCreate(p)
  \/ \E p \in Procs : OpenFinish(p)
  \/ \E p \in Procs : OpenPrune(p)
  \/ \E p \in Procs : RememberUse(p)
  \/ \E p \in Procs : RememberPut(p)
  \/ \E p \in Procs : ContextRead(p)
  \/ \E p \in Procs : SummaryLock(p)
  \/ \E p \in Procs : SummaryUse(p)
  \/ \E p \in Procs : SummaryPut(p)
  \/ \E p \in Procs : StatsRead(p)
  \/ \E p \in Procs : Release(p)
  \/ \E p \in Procs : Return(p)
  \/ \E p \in Procs : Crash(p)
  \/ Tick

\* The step a process that holds a lock takes next: a step of its unit of
\* work, or the release of the finally block.
Work(p) ==
  \/ DedupRead(p) \/ DedupCheck(p) \/ SessionWrite(p)
  \/ OpenCheck(p) \/ OpenUse(p) \/ OpenCreate(p)
  \/ RememberUse(p) \/ RememberPut(p) \/ ContextRead(p)
  \/ SummaryUse(p) \/ SummaryPut(p) \/ StatsRead(p)
  \/ Release(p)

\* A process that is running goes on: the file operation or the engine
\* call it awaits returns, and its next step is taken.
SpecLocks == InitLocks /\ [][NextLocks]_vars /\ \A p \in Procs : WF_vars(Work(p))

\* Processes writing the session files of a new directory, the write taken
\* step by step, and processes asking for the session id meanwhile.
NextSessionSteps ==
  \/ \E p \in Procs : WriteSessionBegin(p)
  \/ \E p \in Procs : Acquire(p)
  \/ \E p \in Procs : SessionTruncate(p)
  \/ \E p \in Procs : SessionData(p)
  \/ \E p \in Procs : Release(p)
  \/ \E p \in Procs : GetSessionId(p)
  \/ \E p \in Procs : Return(p)

SpecSessionSteps == InitSession /\ [][NextSessionSteps]_vars

\* The handlers of one process given tool calls that overlap: each of Procs
\* is a handler the host has started, and all share the cache.
InitOverlap ==
  /\ Quiet
  /\ horizon = OverlapTicks * TickMs
  /\ budget = OverlapCalls
  /\ faults = 0
  /\ dedupFile = NoFile /\ checks = <<>>
  /\ backups = {}
  /\ store = NoStore

NextOverlap ==
  \/ \E p \in Procs : CaptureCheck(p)
  \/ \E p \in Procs : CaptureStore(p)
  \/ \E p \in Procs : CaptureMark(p)
  \/ Tick

SpecOverlap == InitOverlap /\ [][NextOverlap]_vars

\* The handlers of one process given session events that overlap: each of
\* Procs is a handler the host has started; the flag is the one of the
\* process, and a handler that has no Mind yet opens it.
InitIdle ==
  /\ Quiet
  /\ horizon = 0
  /\ budget = IdleCalls
  /\ faults = 0
  /\ dedupFile = NoFile /\ checks = <<>>
  /\ backups = {}
  /\ store = NoStore

NextIdle ==
  \/ \E p \in Procs : SessionCreated(p)
  \/ \E p \in Procs : SessionIdleOverlapping(p)
  \/ \E p \in Procs : SessionCapture(p)
  \/ \E p \in Procs : SessionAfterChanges(p)
  \/ \E p \in Procs : SessionAfterContext(p)
  \/ \E p \in Procs : SessionSummaryLock(p)
  \/ \E p \in Procs : SessionAfterSummary(p)
  \/ \E p \in Procs : Acquire(p)
  \/ \E p \in Procs : OpenCheck(p)
  \/ \E p \in Procs : OpenUse(p)
  \/ \E p \in Procs : OpenCreate(p)
  \/ \E p \in Procs : OpenFinish(p)
  \/ \E p \in Procs : OpenPrune(p)
  \/ \E p \in Procs : RememberUse(p)
  \/ \E p \in Procs : RememberPut(p)
  \/ \E p \in Procs : ContextRead(p)
  \/ \E p \in Procs : SummaryUse(p)
  \/ \E p \in Procs : SummaryPut(p)
  \/ \E p \in Procs : Release(p)

SpecIdle == InitIdle /\ [][NextIdle]_vars

\* The plugins of one process, built for two directories, asking for the
\* Mind; resetMind is called in between.
InitDirectories ==
  /\ Quiet
  /\ horizon = 0
  /\ budget = MindCalls
  /\ faults = 0
  /\ dedupFile = NoFile /\ checks = <<>>
  /\ backups = {}
  /\ store \in {NoStore, Created}

NextDirectories ==
  \/ \E p \in Procs : GetMindFor(p)
  \/ \E p \in Procs : GetMindAssign(p)
  \/ ResetMind

SpecDirectories == InitDirectories /\ [][NextDirectories]_vars

(* ============================== claims ================================ *)

\* p holds the lock of its call: it runs the unit of work, or has finished
\* it and not yet released.
Holding(p) == alive[p] /\ pc[p] \notin {"idle", "lock", "returned", "o_prune"}

SameArgs(a, b) ==
  a.source = b.source /\ a.toolName = b.toolName /\ a.toolInput = b.toolInput

SameHash(a, b) ==
  Hash(a.source, a.toolName, a.toolInput) = Hash(b.source, b.toolName, b.toolInput)

NotDuplicate(c) == c.outcome = Resolved("false")
Duplicate(c) == c.outcome = Resolved("true")

\* Check j was entered before check i was decided, and decided after it:
\* the two calls overlap in time.
Concurrent(i, j) == i < j /\ checks[j].entered < i

\* The entry a check of p records.
NewEntry(p) ==
  [timestamp |-> local[p].now, hash |-> call[p].hash, source |-> call[p].source]

\* p has finished the unit of work of a dedup check and still holds the lock.
Decided(p) == alive[p] /\ pc[p] = "finally" /\ call[p].kind = "dedup"

\* C1: at most one unit of work run through withMindLock on a path holds
\* the lock of that path at any moment, and what a unit of work has read
\* from the guarded file is still what the file holds while it works on it:
\* no other unit of work writes in between.
C1_MutualExclusion ==
  /\ \A p, q \in Procs :
       (p # q /\ Holding(p) /\ Holding(q)) => call[p].path # call[q].path
  /\ \A p \in Procs :
       (alive[p] /\ pc[p] = "d_check") => local[p].content = ReadLines(dedupFile)

\* A unit of work is running while another process waits for the same lock.
C1_Witness ==
  \E p, q \in Procs :
    /\ p # q /\ alive[p] /\ alive[q]
    /\ pc[p] = "d_check" /\ pc[q] = "lock" /\ call[p].path = call[q].path

\* C2: a call whose unit of work ran releases the lock exactly once, not
\* before the unit of work has finished, whether it resolved or threw, and
\* the caller receives the result or the error of the unit of work.
C2_ReleasedOnce ==
  \A p \in Procs :
    /\ releases[p] <= 1
    /\ releases[p] = 1 => (pc[p] \in {"returned", "o_prune"} /\ fnOutcome[p] # NoOutcome)
    /\ (alive[p] /\ pc[p] = "returned" /\ fnOutcome[p] # NoOutcome) =>
         /\ releases[p] = 1
         /\ result[p] = fnOutcome[p]
         /\ \A q \in Paths : ~(lock[q].held /\ lock[q].owner = p)

\* The unit of work threw, the lock was released and the caller got the error.
C2_Witness ==
  \E p \in Procs :
    /\ pc[p] = "returned" /\ result[p] = Threw("writeFile") /\ releases[p] = 1
    /\ \A q \in Paths : ~lock[q].held

\* The frames of the memory that p wrote as observations.
FramesBy(p) ==
  {i \in 1..Len(store.frames) :
     store.frames[i].by = p /\ store.frames[i].label = "discovery"}

\* C3: writers that concurrently each open the memory of a directory that
\* has none and then remember one observation: no call of any of them
\* rejects, once they are done the memory holds exactly one frame of each
\* writer and nothing else, and a Mind opened afterwards reports as many
\* observations as there are writers.
C3_AllWritesCounted ==
  /\ rejected = 0
  /\ \A p \in Procs : result[p].status # "threw"
  /\ (budget < 2 \/ WritersDone) =>
       /\ Len(store.frames) = NumProcs
       /\ \A p \in Procs : Cardinality(FramesBy(p)) = 1
  /\ \A p \in Procs :
       (pc[p] = "returned" /\ call[p].kind = "stats")
         => result[p] = Resolved(ToString(NumProcs))

\* The Mind opened after the writers has reported its stats, and the last
\* writer to open was not the last to write.
C3_Witness ==
  /\ pc[1] = "returned" /\ call[1].kind = "stats"
  /\ result[1] = Resolved(ToString(NumProcs))
  /\ rejected = 0
  /\ store.frames[1].by = NumProcs

WriteKinds == {"remember", "summary"}

WriterOf(label) == IF label = "session" THEN "summary" ELSE "remember"

\* C4: remember and saveSessionSummary take the lock of the memory file,
\* then obtain a handle from the engine, then put once through that handle,
\* then release the lock: the handle is obtained while the lock is held and
\* before the put, every frame is put through a handle obtained in the call
\* that put it (never the handle of the Mind) while the lock is held, a
\* call that resolved has put exactly once, and the lock is released once,
\* after the put.
C4_WriteProtocol ==
  /\ \A p \in Procs :
       (alive[p] /\ pc[p] \in {"r_use", "r_put", "s_use", "s_put"}) =>
         /\ lock[MemoryPath].held /\ lock[MemoryPath].owner = p
         /\ local[p].puts = 0 /\ releases[p] = 0
         /\ pc[p] \in {"r_use", "s_use"} => local[p].memvid = NoHandle
         /\ pc[p] \in {"r_put", "s_put"} =>
              local[p].memvid = [owner |-> p, openedIn |-> call[p].kind]
  /\ \A p \in Procs :
       (pc[p] \in {"finally", "returned"} /\ call[p].kind \in WriteKinds) =>
         /\ local[p].puts <= 1
         /\ fnOutcome[p].status = "resolved" => local[p].puts = 1
         /\ (pc[p] = "returned" /\ fnOutcome[p] # NoOutcome) =>
              /\ releases[p] = 1
              /\ ~(lock[MemoryPath].held /\ lock[MemoryPath].owner = p)
  /\ \A i \in 1..Len(store.frames) :
       /\ store.frames[i].locked
       /\ store.frames[i].handle = WriterOf(store.frames[i].label)

\* A process has remembered an observation and then saved a session
\* summary that counts it, both calls over and the lock free.
C4_Witness ==
  \E p \in Procs :
    /\ pc[p] = "returned" /\ call[p].kind = "summary"
    /\ result[p].status = "resolved" /\ ~lock[MemoryPath].held
    /\ \E i, j \in 1..Len(store.frames) :
         /\ i < j
         /\ store.frames[i].by = p /\ store.frames[i].label = "discovery"
         /\ store.frames[j].by = p /\ store.frames[j].label = "session"
         /\ store.frames[j].count = 1


\* C5: a check that finds no entry with its hash in the log returns not
\* duplicate, and the next check of the log, made with the same arguments
\* within the window, returns duplicate.
C5_FirstThenDuplicate ==
  \A j \in 1..Len(checks) :
    /\ ( /\ checks[j].outcome.status = "resolved"
         /\ \A i \in 1..(j - 1) : ~(SameHash(checks[i], checks[j]) /\ NotDuplicate(checks[i])) )
       => NotDuplicate(checks[j])
    /\ ( /\ j > 1
         /\ SameArgs(checks[j - 1], checks[j])
         /\ NotDuplicate(checks[j - 1])
         /\ checks[j].now - checks[j - 1].now < DEDUP_WINDOW_MS )
       => Duplicate(checks[j])

\* A first check returned not duplicate and the check right after it, with
\* the same arguments, returned duplicate.
C5_Witness ==
  \E j \in 2..Len(checks) :
    /\ SameArgs(checks[j - 1], checks[j])
    /\ NotDuplicate(checks[j - 1]) /\ Duplicate(checks[j])
    /\ \A i \in 1..(j - 2) : ~SameHash(checks[i], checks[j])

\* C6 as stated: a check that differs from every earlier check in the
\* source, the tool or the input returns not duplicate, whatever the size
\* of the inputs.
C6_AnyInputDiffers ==
  \A j \in 1..Len(checks) :
    ( /\ checks[j].outcome.status = "resolved"
      /\ \A i \in 1..(j - 1) : ~SameArgs(checks[i], checks[j]) )
    => NotDuplicate(checks[j])

DiffersInKey(a, b) ==
  \/ a.source # b.source
  \/ a.toolName # b.toolName
  \/ Slice0(JSONStringifyInput(a.toolInput), 200) # Slice0(JSONStringifyInput(b.toolInput), 200)

\* C6 (amended): a check that differs from every earlier check in the
\* source, in the tool, or within the first 200 characters of the JSON text
\* of the input returns not duplicate.
C6_KeyDiffers ==
  \A j \in 1..Len(checks) :
    ( /\ checks[j].outcome.status = "resolved"
      /\ \A i \in 1..(j - 1) : DiffersInKey(checks[i], checks[j]) )
    => NotDuplicate(checks[j])

\* Three checks inside one window, each differing from the earlier ones (in
\* the source, in the tool, in the input) and each returning not duplicate.
C6_Witness ==
  /\ Len(checks) = 3
  /\ \A j \in 1..3 : NotDuplicate(checks[j])
  /\ checks[3].now - checks[1].now < DEDUP_WINDOW_MS
  /\ \E i, j \in 1..3 :
       /\ i < j /\ checks[i].source # checks[j].source
       /\ checks[i].toolName = checks[j].toolName
       /\ checks[i].toolInput = checks[j].toolInput

C8_ExpiredIsAbsent ==
  \A p \in Procs :
    ( /\ Decided(p) /\ fnOutcome[p].status = "resolved"
      /\ \A k \in 1..Len(local[p].content) :
           LET e == JSONParse(local[p].content[k]) IN
             (e # Null /\ e.hash = call[p].hash)
               => local[p].now - e.timestamp > DEDUP_WINDOW_MS )
    => /\ fnOutcome[p] = Resolved("false")
       /\ dedupFile.exists /\ dedupFile.lines # <<>>
       /\ JSONParse(dedupFile.lines[Len(dedupFile.lines)]) = NewEntry(p)

\* A check found an entry with its hash that was older than the window,
\* and returned not duplicate.
C8_Witness ==
  \E p \in Procs :
    /\ Decided(p) /\ fnOutcome[p] = Resolved("false")
    /\ \E k \in 1..Len(local[p].content) :
         LET e == JSONParse(local[p].content[k]) IN
           e.hash = call[p].hash /\ local[p].now - e.timestamp > DEDUP_WINDOW_MS

\* C9: a check that reports duplicate leaves the log file as it read it.
C9_DuplicateLeavesLog ==
  \A p \in Procs :
    (Decided(p) /\ fnOutcome[p] = Resolved("true"))
      => dedupFile = FileOf(local[p].content)

\* A check reported duplicate while the log held an entry that had left the
\* window, and the entry is still there.
C9_Witness ==
  \E p \in Procs :
    /\ Decided(p) /\ fnOutcome[p] = Resolved("true")
    /\ \E k \in 1..Len(dedupFile.lines) :
         local[p].now - JSONParse(dedupFile.lines[k]).timestamp >= DEDUP_WINDOW_MS

\* The lines of the log that a check at time t keeps.
KeptLines(lines, t) ==
  LET Kept(line) ==
        NonEmpty(line) /\ JSONParse(line) # Null /\ InWindow(JSONParse(line), t)
  IN SelectSeq(lines, Kept)

\* C10: after a check that reports not duplicate, the log holds the entries
\* it held before that are inside the window at the time of the check, in
\* their order, followed by the new entry, and no entry older than the
\* window.
C10_PrunedPlusNew ==
  \A p \in Procs :
    (Decided(p) /\ fnOutcome[p] = Resolved("false")) =>
      /\ dedupFile.exists
      /\ dedupFile.lines =
           Append(KeptLines(local[p].content, local[p].now), Stringify(NewEntry(p)))
      /\ \A k \in 1..Len(dedupFile.lines) :
           local[p].now - JSONParse(dedupFile.lines[k]).timestamp <= DEDUP_WINDOW_MS

\* A check that reported not duplicate dropped an expired entry and kept an
\* entry that was still inside the window.
C10_Witness ==
  \E p \in Procs :
    /\ Decided(p) /\ fnOutcome[p] = Resolved("false")
    /\ Len(KeptLines(local[p].content, local[p].now)) >= 1
    /\ Len(KeptLines(local[p].content, local[p].now)) < Len(local[p].content)

\* The valid entries of the lines that are inside the window at time t.
ValidEntries(lines, t) ==
  {JSONParse(lines[k]) : k \in {i \in 1..Len(lines) :
     /\ lines[i].json /\ lines[i].value # Null
     /\ DOMAIN lines[i].value = {"timestamp", "hash", "source"}
     /\ t - lines[i].value.timestamp < DEDUP_WINDOW_MS}}

\* The log that p read holds a line that is no entry.
ReadCorrupt(p) ==
  \E k \in 1..Len(local[p].content) :
    local[p].content[k] \in {GarbageLine, EmptyLine, NullLine}
      \/ ~("timestamp" \in DOMAIN local[p].content[k].value)

\* C11: a check of a log that holds corrupt lines does not fail for them:
\* it completes with true exactly when a valid entry inside the window has
\* its hash, with false otherwise, and a false check writes back the valid
\* entries and its own, without the corrupt lines.  (The only way the check
\* fails is a failing write of the log.)
C11_CorruptLinesSkipped ==
  \A p \in Procs :
    (Decided(p) /\ ReadCorrupt(p)) =>
      LET valid == ValidEntries(local[p].content, local[p].now)
          hit == \E e \in valid : e.hash = call[p].hash
      IN /\ fnOutcome[p] \in {Resolved("true"), Resolved("false"), Threw("writeFile")}
         /\ hit => fnOutcome[p] = Resolved("true")
         /\ ~hit => fnOutcome[p] # Resolved("true")
         /\ fnOutcome[p] = Resolved("false") =>
              \A k \in 1..Len(dedupFile.lines) :
                /\ dedupFile.lines[k].json
                /\ dedupFile.lines[k].value \in valid \cup {NewEntry(p)}

\* Checks of a log with corrupt lines have completed with true (the valid
\* entry among the corrupt lines decided) and with false.
C11_Witness ==
  /\ \E i \in 1..Len(checks) : checks[i].entered >= 1 /\ Duplicate(checks[i])
  /\ \E p \in Procs :
       /\ Decided(p) /\ ReadCorrupt(p) /\ fnOutcome[p] = Resolved("false")
       /\ Len(dedupFile.lines) = 2

\* p is in the lock section of Mind.open and has looked at the file.
Opening(p) ==
  alive[p] /\ call[p].kind = "open" /\ pc[p] \in {"o_use", "o_create", "finally"}

\* The backup that the recovery of p makes of the file it found.
NewBackup(p) == [time |-> local[p].now, file |-> local[p].found]

\* C12: Mind.open decides under the lock of the memory file, in this order:
\* a missing file is created and no backup is made; else a file larger than
\* the limit is renamed to a backup stamped with the time (a failing rename
\* is ignored) and a new store is created; only a file that exists and is
\* not larger than the limit is given to the engine's open, which is never
\* tried on a missing or an oversized file.
C12_OpenOrder ==
  \A p \in Procs :
    Opening(p) =>
      LET f == local[p].found IN
        /\ lock[MemoryPath].held /\ lock[MemoryPath].owner = p
        /\ ~f.exists =>
             /\ ~local[p].tried /\ pc[p] # "o_use"
             /\ local[p].rename = "none" /\ backups \subseteq local[p].before
             /\ pc[p] = "finally" => (store = Created /\ fnOutcome[p].status = "resolved")
        /\ (f.exists /\ f.sizeMB > MAX_FILE_SIZE_MB) =>
             /\ ~local[p].tried /\ pc[p] # "o_use"
             /\ local[p].rename # "none"
             /\ local[p].rename = "done" => NewBackup(p) \in backups
             /\ backups \ local[p].before \subseteq {NewBackup(p)}
             /\ pc[p] = "finally" => (store = Created /\ fnOutcome[p].status = "resolved")
        /\ (f.exists /\ f.sizeMB <= MAX_FILE_SIZE_MB) =>
             /\ pc[p] = "o_use" \/ local[p].tried
             /\ pc[p] = "o_use" => (store = f /\ backups \subseteq local[p].before)

\* An open found a file larger than the limit, made a backup of it and has
\* created the new store, without the engine's open.
C12_Witness ==
  \E p \in Procs :
    /\ Opening(p) /\ pc[p] = "finally"
    /\ local[p].found.sizeMB > MAX_FILE_SIZE_MB
    /\ NewBackup(p) \in backups /\ store = Created /\ ~local[p].tried

\* The message matches one of the corruption signatures.
HasSignature(msg) == \E pat \in CORRUPTION_PATTERNS : Includes(msg, pat)

\* The engine's open failed on the file p found.
OpenFailed(p) ==
  /\ alive[p] /\ call[p].kind = "open" /\ local[p].tried
  /\ pc[p] \in {"o_create", "finally", "returned", "o_prune"}
  /\ local[p].found.error # ""

\* C13: when the engine's open fails with a message that matches a
\* corruption signature, Mind.open does not fail: the file is renamed to a
\* backup stamped with the time, or deleted when the rename fails (a failing
\* deletion is ignored), a new store is created in its place, and open
\* returns an initialized Mind around the handle of the new store.
C13_CorruptionRecovered ==
  \A p \in Procs :
    (OpenFailed(p) /\ HasSignature(local[p].found.error)) =>
      /\ fnOutcome[p].status # "threw" /\ result[p].status # "threw"
      /\ local[p].rename # "none"
      /\ local[p].rename = "done" => NewBackup(p) \in backups
      /\ pc[p] = "o_create" =>
           /\ lock[MemoryPath].held /\ lock[MemoryPath].owner = p
           /\ local[p].rename = "done" => store = NoStore
           /\ local[p].rename = "failed" => store \in {NoStore, local[p].found}
      /\ pc[p] = "finally" => (store = Created /\ fnOutcome[p].status = "resolved")
      /\ pc[p] = "o_prune" =>
           /\ result[p].status = "resolved"
           /\ mind[p].initialized /\ mind[p].memvid = [owner |-> p, openedIn |-> "open"]

\* An open whose engine reported corruption has backed the file up, created
\* a new store and built its Mind.
C13_Witness ==
  \E p \in Procs :
    /\ OpenFailed(p) /\ HasSignature(local[p].found.error)
    /\ pc[p] = "o_prune" /\ mind[p].initialized
    /\ NewBackup(p) \in backups /\ store = Created

\* C14: when the engine's open fails with a message that matches no
\* corruption signature, Mind.open rejects with that error and has changed
\* nothing: at the end of the lock section the memory file is the file that
\* was found, no backup was made and no new store created; the lock is
\* released once, and no Mind is built and nothing pruned.
C14_OtherErrorPropagates ==
  \A p \in Procs :
    (OpenFailed(p) /\ ~HasSignature(local[p].found.error)) =>
      /\ pc[p] \in {"finally", "returned"}
      /\ fnOutcome[p] = Threw(local[p].found.error)
      /\ local[p].rename = "none" /\ local[p].memvid = NoHandle
      /\ pc[p] = "finally" =>
           /\ store = local[p].found
           /\ backups \subseteq local[p].before
      /\ pc[p] = "returned" =>
           /\ result[p] = Threw(local[p].found.error)
           /\ releases[p] = 1
           /\ ~(lock[MemoryPath].held /\ lock[MemoryPath].owner = p)

\* An open of a file the engine could not read has rejected with the
\* engine's error; the file is in place, no backup exists, the lock is free.
C14_Witness ==
  \E p \in Procs :
    /\ OpenFailed(p) /\ ~HasSignature(local[p].found.error)
    /\ pc[p] = "returned" /\ result[p] = Threw(local[p].found.error)
    /\ store = local[p].found /\ backups = {} /\ ~lock[MemoryPath].held

\* The open of p has replaced the file it found: it was larger than the
\* limit, or the engine reported corruption on it.
Recovered(p) ==
  /\ Opening(p) /\ pc[p] = "finally"
  /\ \/ local[p].found.exists /\ local[p].found.sizeMB > MAX_FILE_SIZE_MB
     \/ local[p].tried /\ HasSignature(local[p].found.error)

\* C15 as stated: every recovery leaves a new store and exactly one new
\* backup, which holds the old file.
C15_AlwaysBackedUp ==
  \A p \in Procs :
    Recovered(p) =>
      /\ store = Created
      /\ backups \ local[p].before = {NewBackup(p)}

\* C15 (amended): every recovery leaves a new store; when its rename
\* succeeded it leaves exactly one new backup, which holds the old file,
\* and when the rename failed it leaves no new backup: the old file is
\* deleted or overwritten without one.
C15_BackedUpUnlessRenameFails ==
  \A p \in Procs :
    Recovered(p) =>
      /\ store = Created
      /\ local[p].rename \in {"done", "failed"}
      /\ local[p].rename = "done" => backups \ local[p].before = {NewBackup(p)}
      /\ local[p].rename = "failed" => backups \subseteq local[p].before

\* A recovery from a corrupt file has left the new store and one new
\* backup next to the backups of earlier runs.
C15_Witness ==
  \E p \in Procs :
    /\ Recovered(p) /\ local[p].tried /\ local[p].rename = "done"
    /\ store = Created /\ local[p].before # {}
    /\ backups = local[p].before \cup {NewBackup(p)}

\* The step in which the Mind.open of p returns its Mind to the caller.
OpenReturns(p) ==
  /\ alive[p] /\ call[p].kind = "open" /\ result[p].status = "resolved"
  /\ pc[p] \in {"returned", "o_prune"} /\ pc'[p] = "idle"

\* C16 as stated: whenever a Mind.open returns, at most three backups
\* remain, and they are the ones with the highest timestamps.
C16_AtMostThree ==
  [][\A p \in Procs :
       OpenReturns(p) =>
         /\ Cardinality(backups') <= BackupKeepCount
         /\ \A b \in backups \ backups', c \in backups' : b.time < c.time]_vars

\* C16 (amended): the pruning of a Mind.open deletes only backups that it
\* listed and that have three newer listed backups, and never a backup it
\* did not list; when no deletion fails, at most three of the listed
\* backups remain and each of them is newer than every deleted one, so at
\* most three backups remain when no other process has made one since the
\* listing. An open whose listing fails returns without deleting anything.
C16_ListedPrunedToThree ==
  [][\A p \in Procs :
       OpenReturns(p) =>
         IF pc[p] = "returned"
         THEN backups' = backups
         ELSE LET listed  == {b \in backups : b.time \in local[p].listing}
                  left    == {b \in backups' : b.time \in local[p].listing}
                  deleted == backups \ backups'
              IN  /\ backups' \subseteq backups
                  /\ deleted \subseteq listed
                  /\ \A b \in deleted :
                       Cardinality({t \in local[p].listing : t > b.time}) >= BackupKeepCount
                  /\ faults' = faults =>
                       /\ Cardinality(left) <= BackupKeepCount
                       /\ \A b \in deleted, c \in left : b.time < c.time
                       /\ Times(backups) = local[p].listing =>
                            Cardinality(backups') = Min(Cardinality(backups), BackupKeepCount)]_vars

\* A recovery at time 0 next to the backups of earlier runs has returned:
\* its backup and the two newest earlier ones are what remains.
C16_Witness ==
  /\ \A p \in Procs : pc[p] = "idle"
  /\ budget < MaxCalls
  /\ Times(backups) = {0, 0 - TickMs, 0 - 2 * TickMs}

\* withMindLock has rejected the call of p because the lock was not to be had.
LockRejected(p) == pc[p] = "returned" /\ result[p] = Threw("ELOCKED")

\* C17: a contended acquisition is rejected only when the lock is held by
\* a live holder and the retries are used up (1000 retries of at most 50 ms);
\* before that the caller keeps waiting or gets the lock.  A rejected call
\* never ran its unit of work and never released: it has no outcome of the
\* unit of work, none of its locals, no release, it does not own the lock,
\* and the files are as the other processes left them.
C17_RejectedAfterRetries ==
  [][\A p \in Procs :
       /\ pc[p] = "lock" /\ pc'[p] # "lock" =>
            IF result'[p].status = "threw"
            THEN /\ result'[p] = Threw("ELOCKED")
                 /\ lock[call[p].path].held /\ lock[call[p].path].owner # p
                 /\ lock[call[p].path].mtime >= now - LOCK_OPTIONS.stale
                 /\ now - waitStart[p] >=
                      LOCK_OPTIONS.retries.retries * LOCK_OPTIONS.retries.maxTimeout
                 /\ lock' = lock /\ dedupFile' = dedupFile /\ store' = store
                 /\ backups' = backups
            ELSE /\ lock'[call[p].path] = [held |-> TRUE, owner |-> p, mtime |-> now]
                 /\ result'[p] = NoOutcome
       /\ LockRejected(p) =>
            /\ fnOutcome[p] = NoOutcome /\ local[p] = NoLocal /\ releases[p] = 0
            /\ ~(lock[call[p].path].held /\ lock[call[p].path].owner = p /\ alive[p])
            /\ pc'[p] # pc[p] => pc'[p] = "idle" /\ rejected' = rejected + 1
                                   /\ lock' = lock /\ releases'[p] = 0]_vars

\* A caller that waited out its retries behind a live holder was rejected.
C17_Witness ==
  \E p \in Procs :
    /\ LockRejected(p)
    /\ \E q \in Procs \ {p} : Holding(q) /\ call[q].path = call[p].path
    /\ now >= LockWaitMs

\* The lock on path q was left behind by a holder that died.
Abandoned(q) == lock[q].held /\ ~alive[lock[q].owner]

\* p is waiting for the lock on path q.
Waiting(p, q) == alive[p] /\ pc[p] = "lock" /\ call[p].path = q

\* C18: a lock whose holder died without releasing is taken over by a
\* waiter once it is older than the stale interval of 30000 ms: while a
\* process waits on a path whose abandoned lock is that old, a waiting
\* process comes to hold the lock; and no waiter ever takes a lock that is
\* held and not older than that interval.
C18_StaleTakenOver ==
  /\ [][\A p \in Procs :
          /\ pc[p] = "lock" /\ lock[call[p].path].held
          /\ lock'[call[p].path].held /\ lock'[call[p].path].owner = p
          => /\ now - lock[call[p].path].mtime > 30000
             /\ Abandoned(call[p].path)]_vars
  /\ \A p \in Procs, q \in Paths :
       (Waiting(p, q) /\ Abandoned(q) /\ now - lock[q].mtime > 30000)
         ~> (lock[q].held /\ alive[lock[q].owner] /\ lock[q].mtime >= now - 30000)

\* A waiter holds the lock that a dead process took and never released.
C18_Witness ==
  \E p \in Procs, q \in Procs :
    /\ p # q
    /\ ~alive[q] /\ pc[q] \notin {"idle", "lock", "returned"}
    /\ Holding(p) /\ call[p].path = call[q].path
    /\ lock[call[p].path] = [held |-> TRUE, owner |-> p, mtime |-> now]
    /\ now > 30000

\* compressToolOutput has returned to p.
Compressed(p) == call[p].kind = "compress" /\ pc[p] = "returned"

\* C19: with autoCompress false, whatever the size of the text, or with a
\* text shorter than 3000 characters, compressToolOutput returns the text
\* as it is, wasCompressed false and originalSize the length of the text,
\* for every tool name and input descriptor.
C19_SmallOrDisabledUnchanged ==
  \A p \in Procs :
    Compressed(p) /\ (~call[p].autoCompress \/ Len(call[p].output) < 3000) =>
      result[p] = Resolved([compressed |-> call[p].output, wasCompressed |-> FALSE,
                            originalSize |-> Len(call[p].output)])

\* A text of 5000 characters went through with compression disabled, for
\* a tool that has a strategy of its own.
C19_Witness ==
  \E p \in Procs :
    /\ Compressed(p) /\ ~call[p].autoCompress /\ call[p].toolName = "read"
    /\ Len(call[p].output) = 5000
    /\ result[p].value.compressed = call[p].output

\* compressToolOutput has returned to p a text of at least 3000 characters
\* that it was to compress.
CompressedLarge(p) ==
  Compressed(p) /\ call[p].autoCompress /\ Len(call[p].output) >= 3000

\* C20 as stated: a text of at least 3000 characters, compression enabled,
\* comes back with wasCompressed true, originalSize its length, and a
\* compressed text of at most 2000 characters.
C20_AtMostTarget ==
  \A p \in Procs :
    CompressedLarge(p) =>
      /\ result[p].value.wasCompressed
      /\ result[p].value.originalSize = Len(call[p].output)
      /\ Len(result[p].value.compressed) <= 2000

\* C20 (amended): such a text comes back with wasCompressed true,
\* originalSize its length, and a compressed text that is either at most
\* 2000 characters long or exactly 2000 characters followed by the marker
\* "\n... (truncated)", 2016 characters in all.
C20_AtMostTargetPlusMarker ==
  \A p \in Procs :
    CompressedLarge(p) =>
      /\ result[p].value.wasCompressed
      /\ result[p].value.originalSize = Len(call[p].output)
      /\ \/ Len(result[p].value.compressed) <= 2000
         \/ /\ Len(result[p].value.compressed) = 2016
            /\ SubSeq(result[p].value.compressed, 2001, 2016) = "\n... (truncated)"

\* A text of 5000 characters on one line, of a tool without a strategy of
\* its own, came back cut to 2000 characters with the marker behind them.
C20_Witness ==
  \E p \in Procs :
    /\ CompressedLarge(p) /\ call[p].toolName = "task"
    /\ call[p].output = Repeat("x", 5000)
    /\ result[p].value.compressed = Repeat("x", 2000) \o "\n... (truncated)"

\* p asked for its source and has the answer.
Detected(p) == pc[p] = "returned" /\ call[p].kind = "detectSource"

\* A signal is present: the variable is set to a value that is not empty.
Present(e, name) == e[name] # Unset /\ e[name] # Set("")

OpenCodeSignal(e) == Present(e, "OPENCODE_SESSION_ID") \/ Present(e, "OPENCODE_DIR")

\* C27: detectSource returns "opencode" whenever an OpenCode signal
\* (OPENCODE_SESSION_ID or OPENCODE_DIR) is present, also when the Claude
\* signal is present too; it returns "claude-code" exactly when
\* CLAUDE_PROJECT_DIR is present and no OpenCode signal is; it returns
\* "opencode" when no signal is present.
C27_OpenCodeFirst ==
  \A p \in Procs :
    Detected(p) =>
      LET e == env[p]
          source == result[p].value
      IN  /\ OpenCodeSignal(e) => source = "opencode"
          /\ source = "claude-code" <=>
               (Present(e, "CLAUDE_PROJECT_DIR") /\ ~OpenCodeSignal(e))
          /\ (~OpenCodeSignal(e) /\ ~Present(e, "CLAUDE_PROJECT_DIR")) => source = "opencode"
          /\ source \in {"opencode", "claude-code"}

\* Both signals are present and the answer is "opencode".
C27_Witness ==
  \E p \in Procs :
    /\ Detected(p)
    /\ Present(env[p], "OPENCODE_DIR") /\ Present(env[p], "CLAUDE_PROJECT_DIR")
    /\ ~Present(env[p], "OPENCODE_SESSION_ID")
    /\ result[p].value = "opencode"

\* p read the session info of a source and has the answer.
ReadDone(p) == pc[p] = "returned" /\ call[p].kind = "readSessionInfo"

\* The writes for a source that were completed before position n of the log.
WritesOf(source, n) ==
  {i \in 1..n : log[i].op = "writeSessionInfo" /\ log[i].source = source}

Latest(indices) == CHOOSE i \in indices : \A j \in indices : j <= i

LastFrame(s) == s.frames[Len(s.frames)]

\* p has just written the record of its remember or saveSessionSummary.
Wrote(p) ==
  /\ pc[p] = "finally" /\ call[p].kind \in {"remember", "summary"}
  /\ fnOutcome[p].status = "resolved"

\* The source a remember was given: "" when it was given none.
GivenSource(p) == Get(call[p].input.metadata, "source")

\* C22: every record that remember or saveSessionSummary writes carries a
\* metadata.source that is "opencode" or "claude-code"; remember stores a
\* valid source as it was given and stores "opencode" for a source that is
\* missing or not one of the two.
C22_SourceNormalised ==
  /\ [](\A i \in 1..Len(store.frames) :
          store.frames[i].metadata.source \in {"opencode", "claude-code"})
  /\ [][\A p \in Procs :
          (pc[p] = "r_put" /\ Len(store'.frames) = Len(store.frames) + 1
             /\ pc'[p] = "finally") =>
            LastFrame(store').metadata.source =
              IF GivenSource(p) \in {"opencode", "claude-code"}
              THEN GivenSource(p) ELSE "opencode"]_vars

\* A remember that was given the source "cursor" stored "opencode", and
\* the memory holds a record given as "claude-code" and a session summary.
C22_Witness ==
  /\ \E p \in Procs :
       /\ Wrote(p) /\ call[p].kind = "remember"
       /\ GivenSource(p) = "cursor"
       /\ LastFrame(store).by = p
       /\ LastFrame(store).metadata.source = "opencode"
  /\ \E i \in 1..Len(store.frames) : store.frames[i].metadata.source = "claude-code"
  /\ \E i \in 1..Len(store.frames) : store.frames[i].label = "session"

\* C29: the in-process cache of recently observed keys holds at most 100
\* entries after every markObserved call.
C29_AtMostHundred ==
  \A p \in Procs : Cardinality(recentObservations[p]) <= CACHE_MAX_SIZE

\* C26: on a store that was new when the Mind was opened, and that only
\* this Mind writes, stats() reports as totalObservations the number of
\* remember calls the Mind has completed: those it made less those that
\* rejected.
C26_StatsCountsRemembers ==
  [][\A p \in Procs :
       (pc[p] = "t_read" /\ pc'[p] = "finally")
         => fnOutcome'[p] = Resolved(ToString(mind[p].writes - rejected))]_vars

\* Five remember calls were made, none rejected, and stats() reports 5.
C26_Witness ==
  \E p \in Procs :
    /\ call[p].kind = "stats" /\ pc[p] = "finally"
    /\ mind[p].writes = 5 /\ rejected = 0
    /\ fnOutcome[p] = Resolved("5")

\* The calls of getMind that have returned a Mind: the places in the log
\* of the call and of its return.
Returned ==
  {c \in (DOMAIN log) \X (DOMAIN log) :
     /\ c[1] < c[2]
     /\ log[c[1]].op = "getMind" /\ log[c[2]].op = "return"
     /\ log[c[2]].task = log[c[1]].task /\ log[c[2]].value # 0
     /\ \A k \in (c[1] + 1)..(c[2] - 1) :
          ~(log[k].op = "return" /\ log[k].task = log[c[1]].task)}

Max(a, b) == IF a > b THEN a ELSE b

\* A resetMind lies between the two places of the log.
ResetBetween(a, b) == \E k \in (a + 1)..(b - 1) : log[k].op = "resetMind"

\* The call is the first getMind after a resetMind.
FirstAfterReset(c) ==
  \E k \in 1..(c[1] - 1) :
    /\ log[k].op = "resetMind"
    /\ \A i \in (k + 1)..(c[1] - 1) : log[i].op # "getMind"

\* The Minds returned before the place of the log.
ReturnedBefore(k) ==
  {log[i].value : i \in {j \in 1..(k - 1) : log[j].op = "return"}}

\* C25: two getMind calls with no resetMind between them return the same
\* Mind, whether one follows the other or they overlap, and at most one of
\* them opens the store; the first getMind after a resetMind opens the
\* store and returns a Mind that no call returned before.
C25_Singleton ==
  /\ \A c, d \in Returned :
       (c # d /\ ~ResetBetween(Min(c[1], d[1]), Max(c[2], d[2])))
         => /\ log[c[2]].value = log[d[2]].value
            /\ ~(log[c[2]].opened /\ log[d[2]].opened)
  /\ \A c \in Returned :
       FirstAfterReset(c)
         => /\ log[c[2]].opened
            /\ log[c[2]].value \notin ReturnedBefore(c[1])

\* The handlers of the plugin that are over, as places of the log.
Handled(op) == {i \in DOMAIN log : log[i].op = op}

\* C23: the tool.execute.after handler and the event handler of the plugin
\* never reject: a failure of the dedup check, of the lock, of the open or
\* of the write ends the handler, which resolves.
C23_HandlersNeverReject ==
  \A i \in Handled("tool.execute.after") \cup Handled("session.idle")
             \cup Handled("session.created") :
    log[i].outcome = "resolved"

\* A tool capture failed at its write and a session end failed, and both
\* handlers resolved.
C23_Witness ==
  /\ \E i \in Handled("tool.execute.after") :
       log[i].did = "failed" /\ log[i].outcome = "resolved"
  /\ \E i \in Handled("session.idle") :
       log[i].did = "failed" /\ log[i].outcome = "resolved"

\* The observations in the memory that came from the tool capture or from
\* the capture of the file changes at the session end.
CapturedFrames ==
  {i \in 1..Len(store.frames) :
     Get(store.frames[i].metadata, "tool") \in OBSERVED_TOOLS \cup {"FileChanges", "FileEdit"}}

\* C21: every observation that reached the store from the tool capture or
\* from the capture of the file changes at the session end has a content
\* of at most 2500 characters.
C21_ContentBounded ==
  \A i \in CapturedFrames : Len(store.frames[i].text) <= MAX_OUTPUT_LENGTH

\* C30: a tool call that was skipped as a duplicate has its observation in
\* the memory, stored within the dedup window before the skip, or a
\* capture of it that will not be skipped is under way: no capture that
\* was skipped or whose write failed has left a dedup entry behind.
C30_DuplicateWasStored ==
  \A i \in Handled("tool.execute.after") :
    log[i].did = "duplicate"
      => \/ \E j \in Handled("tool.execute.after") :
              /\ log[j].did = "stored" /\ log[j].hash = log[i].hash
              /\ log[i].at - log[j].at < DEDUP_WINDOW_MS
         \/ \E q \in Procs :
              /\ hook[q].kind = "tool.execute.after" /\ hook[q].hash = log[i].hash
              /\ ~Skipped(hook[q].toolName, hook[q].output.output)

\* The calls of the query tools that are over, were not cancelled, and
\* began on a memory that was missing or without frames.
OnEmpty ==
  {i \in DOMAIN log : log[i].op \in QueryTools /\ log[i].empty /\ ~log[i].aborted}

ToolCaptures ==
  {i \in 1..Len(store.frames) : Get(store.frames[i].metadata, "tool") \in OBSERVED_TOOLS}

\* C33: every observation the tool capture recorded carries the session id
\* of the Mind that stored it, the id by which the session end selects the
\* observations of the session, so that it counts toward the summary.
C33_CapturesCarryMindSession ==
  \A i \in ToolCaptures :
    /\ Get(store.frames[i].metadata, "sessionId") = MindSessionId(store.frames[i].by)
    /\ SessionObs(store.frames, store.frames[i].by) > 0

\* The calls that work on the memory through a Mind, Mind.open among them.
MindKinds == {"open", "remember", "context", "summary"}

\* The last session end of p that went through, and with it resetMind():
\* its place in the log, 0 when there was none.
LastReset(p) ==
  LET done == {i \in DOMAIN log :
                 log[i].op = "session.idle" /\ log[i].by = p /\ log[i].did = "done"}
  IN  IF done = {} THEN 0 ELSE CHOOSE i \in done : \A j \in done : j <= i

\* p has handled a session end successfully, and no handler of p has
\* worked on the memory since.
AfterReset(p) ==
  /\ LastReset(p) > 0
  /\ \A i \in DOMAIN log :
       (i > LastReset(p) /\ log[i].op \in {"tool.execute.after", "session.idle"}
          /\ log[i].by = p)
         => log[i].did \in {"unobserved", "duplicate", "skipped"}

\* C38: after a session end that went through, the first call by which a
\* handler of the plugin works on the memory is Mind.open: it opens a new
\* Mind and does not go on with the one from before the reset.
C38_NewMindAfterReset ==
  [][\A p \in Procs :
       (AfterReset(p) /\ call[p].kind \notin MindKinds /\ call'[p].kind \in MindKinds)
         => call'[p].kind = "open"]_vars

\* C40: whenever compressToolOutput reports wasCompressed for a text that
\* is not empty, the compressed text is not empty either, for every tool
\* and every input descriptor.
C40_CompressedNonEmpty ==
  \A p \in Procs :
    (Compressed(p) /\ result[p].value.wasCompressed /\ call[p].output # "")
      => result[p].value.compressed # ""

\* C35: the window starts at the check that was recorded.  A check returns
\* duplicate exactly when a check with the same hash returned not duplicate
\* in the directory less than 60 000 ms before it; a check that returned
\* duplicate in between makes no difference.
C35_WindowAnchored ==
  \A j \in 1..Len(checks) :
    checks[j].outcome.status = "resolved" =>
      ( Duplicate(checks[j])
          <=> \E i \in 1..(j - 1) :
                /\ NotDuplicate(checks[i]) /\ SameHash(checks[i], checks[j])
                /\ checks[j].now - checks[i].now < DEDUP_WINDOW_MS )

\* A check was recorded, a second one with the same hash returned
\* duplicate inside the window, and a third returned not duplicate less
\* than a window after the second, the window of the first being over.
C35_Witness ==
  \E i, j, k \in 1..Len(checks) :
    /\ i < j /\ j < k
    /\ SameHash(checks[i], checks[j]) /\ SameHash(checks[j], checks[k])
    /\ NotDuplicate(checks[i]) /\ Duplicate(checks[j]) /\ NotDuplicate(checks[k])
    /\ checks[k].now - checks[j].now < DEDUP_WINDOW_MS
    /\ checks[k].now - checks[i].now >= DEDUP_WINDOW_MS

\* The handler of p for a tool call writes its observation in this step.
CaptureWrites(p) ==
  /\ hook[p].kind = "tool.execute.after"
  /\ pc[p] = "r_put" /\ Len(store'.frames) = Len(store.frames) + 1

\* C36: handleToolCapture writes no observation for a tool outside the
\* observed set, for a tool that is not always captured whose output is
\* shorter than 50 characters, or for an output that holds a marker of
\* system content; for an always captured tool with a short output what
\* it writes is the file-modified text, not the output.
C36_SkipsAndSynthetic ==
  [][\A p \in Procs :
       CaptureWrites(p) =>
         LET c == hook[p].output
             toolName == ToLowerCase(c.tool)
             written == store'.frames[Len(store'.frames)].text
         IN  /\ toolName \in OBSERVED_TOOLS
             /\ toolName \notin ALWAYS_CAPTURE_TOOLS => Len(c.output) >= 50
             /\ \A marker \in SKIP_PATTERNS : ~Includes(c.output, marker)
             /\ (toolName \in ALWAYS_CAPTURE_TOOLS /\ Len(c.output) < 50)
                  => /\ StartsWith(written, "File modified: ")
                     /\ EndsWith(written, "\nTool: " \o toolName)]_vars

\* Both file modifications with a short output are in the memory with
\* their file-modified texts, the one without a path as unknown, and
\* nothing else is.
C36_Witness ==
  /\ Len(store.frames) = 2
  /\ \E i, j \in 1..2 :
       /\ store.frames[i].text = "File modified: app.ts\nPath: /src/app.ts\nTool: edit"
       /\ store.frames[j].text = "File modified: unknown\nPath: unknown\nTool: write"

\* The locks p holds.
Owned(p) == {q \in Paths : lock[q].held /\ lock[q].owner = p}

\* p waits for a lock that q holds.
WaitsFor(p, q) == alive[p] /\ pc[p] = "lock" /\ call[p].path \in Owned(q)

\* C34: lock sections are never nested.  A process holds at most one lock,
\* and none while it asks for one, so no process waits for a lock of its
\* own and no two wait for each other; and a process that holds a lock
\* comes to the end of its call with the lock released, unless it dies.
C34_NoNestedLocks ==
  /\ [](\A p \in Procs :
          alive[p] => /\ Cardinality(Owned(p)) <= 1
                      /\ pc[p] \in {"idle", "lock", "returned"} => Owned(p) = {})
  /\ [](\A p, q \in Procs : ~(WaitsFor(p, q) /\ WaitsFor(q, p)))
  /\ \A p \in Procs :
       (alive[p] /\ Owned(p) # {}) ~> (~alive[p] \/ (pc[p] = "returned" /\ Owned(p) = {}))

\* A saveSessionSummary that has left the lock section of getContext is in
\* the lock section of its write: it holds the one lock of the memory.
C34_Witness ==
  \E p \in Procs :
    /\ call[p].kind = "summary" /\ pc[p] = "s_put"
    /\ Owned(p) = {MemoryPath}

\* p asked for the session id and has the answer.
GotSessionId(p) == pc[p] = "returned" /\ call[p].kind = "getSessionId"

\* The ids that the calls of writeSessionInfo for a source wrote or are
\* writing.
WrittenIds(source) ==
  {log[i].sessionId : i \in WritesOf(source, Len(log))}
    \cup {call[q].sessionId :
            q \in {r \in Procs : call[r].kind = "writeSessionInfo"
                                 /\ call[r].source = source}}

\* C37: once a writeSessionInfo for a source has completed, every later
\* getSessionId for that source returns an id that some writeSessionInfo
\* wrote, not the fallback and not a generated id, also while another
\* write for the source is in progress.
C37_WrittenIdOnceWritten ==
  \A p \in Procs :
    (GotSessionId(p) /\ WritesOf(call[p].source, call[p].at) # {})
      => result[p].value \in WrittenIds(call[p].source)

\* The observations the cached hook stored, by their place in the log.
StoredObservations == {i \in 1..Len(log) : log[i].op = "observation"}

\* C31: the cached hook stores at most one observation for a key of tool
\* and call id within the window of 60 seconds, also when two handlers
\* given the same key overlap.
C31_OncePerKeyInWindow ==
  \A i, j \in StoredObservations :
    (i < j /\ log[i].key = log[j].key) => log[j].at - log[i].at >= DEDUP_WINDOW_MS

\* The session ends that went through, and the session starts, by their
\* place in the log.
EndsDone == {i \in DOMAIN log : log[i].op = "session.idle" /\ log[i].did = "done"}
Starts == {i \in DOMAIN log : log[i].op = "session.created"}

\* C32: between two session.created events the session end goes through
\* at most once, also when session.idle events overlap: of two session
\* ends that went through, a session.created lies between them.
C32_OneEndPerSession ==
  \A i, j \in EndsDone : i < j => \E k \in Starts : i < k /\ k < j

\* The calls of getMind(directory) that returned a Mind, by their place in
\* the log, and the directory the Mind of a number was opened on.
GotMind == {i \in DOMAIN log : log[i].op = "getMind" /\ log[i].value # 0}

MindDirectory(n) ==
  log[CHOOSE i \in GotMind : log[i].opened /\ log[i].value = n].directory

\* C39: getMind(directory) returns a Mind that works on the memory of that
\* directory, for every sequence of calls with different directories.
C39_MindOfTheDirectory ==
  \A i \in GotMind : MindDirectory(log[i].value) = log[i].directory

====
